---- MODULE Spec2Model ----
(***************************************************************************)
(* The persistence store of mytasks (internal/store/sqlite.go): the rows   *)
(* of the projects and tasks tables, the statements each store operation   *)
(* sends to the single SQLite connection, and the calls that are between   *)
(* two of their statements.                                                *)
(*                                                                         *)
(* A store operation that is one SQL statement, or one transaction on the  *)
(* only connection (SetMaxOpenConns(1)), is one action. CreateProject,     *)
(* CreateTask and UpdateTask send two statements outside any transaction:  *)
(* each statement is an action, and calls[c] holds what the call keeps     *)
(* between them.                                                           *)
(***************************************************************************)
EXTENDS Integers, Sequences, FiniteSets, TLC

\* ---------------------------------------------------------------- bounds
MaxProjects == 2
MaxTasks == 3
MaxDay == 2
MaxIds == 3
MaxRaceTasks == 2
MaxFiles == 3
MaxStartups == 2
MaxStringLen == 2

\* len(t.Notes) > 255 in Task.Validate.
MaxNotesLen == 255

\* Concurrent callers of the store (HTTP requests being handled).
Clients == {"c1", "c2", "c3"}

\* SQL NULL / a nil *time.Time; a date d is held as {d}.
NULL == {}
Days == 1..MaxDay
NullableDays == {NULL} \cup {{d} : d \in Days}

\* SortOrder values the struct handed to CreateProject / CreateTask carries.
SortOrders == {-1, 0, 2}

\* Those that ask for no position.
AutoSortOrders == {so \in SortOrders : so <= 0}

\* SortOrder values the struct handed to UpdateProject / UpdateTask carries.
UpdateSortOrders == {0}

ProjectIDs == 1..MaxProjects
TaskIDs == 1..MaxTasks

RECURSIVE SeqsUpTo(_, _)
SeqsUpTo(S, n) ==
    IF n = 0 THEN {<<>>}
    ELSE LET shorter == SeqsUpTo(S, n - 1)
         IN shorter \cup {Append(s, x) : s \in {t \in shorter : Len(t) = n - 1}, x \in S}

\* The id lists handed to ReorderProjects / ReorderTasks.
ProjectIDLists == SeqsUpTo(ProjectIDs, MaxIds)
TaskIDLists == SeqsUpTo(TaskIDs, MaxIds)

\* The id lists of the reorders that fail in Next. A rolled-back reorder leaves
\* every table as it was whatever its list, so the short lists stand for all.
FailedIDLists == SeqsUpTo(ProjectIDs, 1)

\* ----------------------------------------------------------------- state
VARIABLES
    projects,       \* rows of table projects: id -> row
    tasks,          \* rows of table tasks: id -> row
    nextProjectID,  \* AUTOINCREMENT: the id the next INSERT INTO projects gets
    nextTaskID,     \* AUTOINCREMENT: the id the next INSERT INTO tasks gets
    today,          \* the calendar date time.Now() falls on
    calls,          \* per caller: the store call it is in the middle of
    files,          \* the file names embedded under migrations/
    schema,         \* the tables and columns the database has
    ledger,         \* versions recorded in table schema_migrations
    boot,           \* NewSQLiteStore: where it stands, and runMigrations' locals
    startups        \* how many times NewSQLiteStore has opened the database

startupVars == <<files, schema, ledger, boot, startups>>

vars == <<projects, tasks, nextProjectID, nextTaskID, today, calls, startupVars>>

Idle == [pc |-> "idle", id |-> 0, wasCompleted |-> FALSE, existingCompletedAt |-> NULL]

\* --------------------------------------------------------------- helpers
Max(S) == CHOOSE x \in S : \A y \in S : y <= x
Range(ids) == {ids[i] : i \in DOMAIN ids}

\* A table with one more row.
Insert(rows, id, row) == [x \in DOMAIN rows \cup {id} |-> IF x = id THEN row ELSE rows[x]]

\* A table with the rows ids deleted.
Remove(rows, ids) == [x \in DOMAIN rows \ ids |-> rows[x]]

\* ... FROM tasks WHERE project_id = ?
TasksOf(rows, projectID) == {t \in DOMAIN rows : rows[t].project_id = projectID}

\* QueryRowContext(... WHERE id = ?).Scan: the row, sql.ErrNoRows without one,
\* and the engine's own error when ok is false.
QueryRow(rows, id, ok) ==
    IF ~ok THEN [err |-> "driver error"]
    ELSE IF id \in DOMAIN rows THEN [row |-> rows[id], err |-> "nil"]
    ELSE [err |-> "sql.ErrNoRows"]

\* AppendOrder as the handlers once computed it: len(rows) + 1.
AppendOrderByCount(rows, ids) == Cardinality(ids) + 1

\* AppendOrder without the increment: COALESCE((SELECT MAX(sort_order) ...), 1).
AppendOrderNoIncrement(rows, ids) ==
    IF ids = {} THEN 1 ELSE Max({rows[i].sort_order : i \in ids})

\* COALESCE((SELECT MAX(sort_order) + 1 FROM <the rows ids>), 1)
AppendOrder(rows, ids) ==
    IF ids = {} THEN 1 ELSE Max({rows[i].sort_order : i \in ids}) + 1

\* sortOrder := -1 when <= 0; CASE WHEN ? > 0 THEN ? ELSE COALESCE(...) END
InsertOrder(sortOrder, rows, ids) ==
    LET arg == IF sortOrder <= 0 THEN -1 ELSE sortOrder
    IN IF arg > 0 THEN arg ELSE AppendOrder(rows, ids)

\* completed_at as CreateTask and UpdateProject bind it: the caller's date,
\* today when the caller gives none, NULL when not completed.
BoundCompletedAt(completed, completedAt) ==
    IF completed THEN (IF completedAt = NULL THEN {today} ELSE completedAt) ELSE NULL

\* TxOutcome of statements sent outside a transaction: each write stays.
TxOutcomeAutocommit(before, written, committed) == written

\* What a transaction leaves behind: its writes on commit, nothing on rollback.
TxOutcome(before, written, committed) == IF committed THEN written ELSE before

\* ------------------------------------------------------------- projects
\* Table projects after CreateProject's INSERT.
ProjectsAfterCreate(sortOrder) ==
    Insert(projects, nextProjectID,
        [sort_order |-> InsertOrder(sortOrder, projects, DOMAIN projects),
         completed |-> FALSE,
         completed_at |-> NULL])

\* CreateProject, the INSERT.
CreateProjectInsert(c, sortOrder) ==
    /\ calls[c].pc = "idle"
    /\ projects' = ProjectsAfterCreate(sortOrder)
    /\ nextProjectID' = nextProjectID + 1
    /\ calls' = [calls EXCEPT ![c] = [Idle EXCEPT !.pc = "CreateProject_select", !.id = nextProjectID]]
    /\ UNCHANGED <<tasks, nextTaskID, today>>
    /\ UNCHANGED startupVars

\* What CreateProject returns after its INSERT and LastInsertId: the id with
\* the sort_order its SELECT scans, or the error of that SELECT.
CreateProjectReturn(rows, id, ok) ==
    LET loaded == QueryRow(rows, id, ok)
    IN IF loaded.err = "nil"
       THEN [err |-> "nil", ID |-> id, SortOrder |-> loaded.row.sort_order]
       ELSE [err |-> "failed to load project sort order"]

\* CreateProject, the SELECT sort_order that follows the INSERT.
CreateProjectSelect(c) ==
    /\ calls[c].pc = "CreateProject_select"
    /\ calls' = [calls EXCEPT ![c] = Idle]
    /\ UNCHANGED <<projects, tasks, nextProjectID, nextTaskID, today>>
    /\ UNCHANGED startupVars

\* Table projects after UpdateProject's UPDATE ... WHERE id = ?.
ProjectsAfterUpdate(rows, id, completed, completedAt, sortOrder) ==
    IF id \in DOMAIN rows
    THEN [rows EXCEPT ![id] =
             [sort_order |-> sortOrder,
              completed |-> completed,
              completed_at |-> BoundCompletedAt(completed, completedAt)]]
    ELSE rows

\* The error UpdateProject returns: that of ExecContext, which is nil for an
\* UPDATE that matches no row as for one that matches.
UpdateProjectError(rows, id, ok) == IF ok THEN "nil" ELSE "failed to update project"

\* UpdateProject: one UPDATE of every column from the caller's struct.
UpdateProject(id, completed, completedAt, sortOrder) ==
    /\ projects' = ProjectsAfterUpdate(projects, id, completed, completedAt, sortOrder)
    /\ UNCHANGED <<tasks, nextProjectID, nextTaskID, today, calls>>
    /\ UNCHANGED startupVars

\* Table projects after MarkProjectComplete's UPDATE: completed = TRUE,
\* completed_at = today's date, whatever the row held.
ProjectsAfterMarkComplete(rows, id) ==
    IF id \in DOMAIN rows
    THEN [rows EXCEPT ![id].completed = TRUE, ![id].completed_at = {today}]
    ELSE rows

\* MarkProjectComplete: one UPDATE.
MarkProjectComplete(id) ==
    /\ projects' = ProjectsAfterMarkComplete(projects, id)
    /\ UNCHANGED <<tasks, nextProjectID, nextTaskID, today, calls>>
    /\ UNCHANGED startupVars

\* ProjectsAfterMarkIncomplete without completed_at = NULL in its SET list.
ProjectsAfterMarkIncompleteKeepsDate(rows, id) ==
    IF id \in DOMAIN rows THEN [rows EXCEPT ![id].completed = FALSE] ELSE rows

\* Table projects after MarkProjectIncomplete's UPDATE.
ProjectsAfterMarkIncomplete(rows, id) ==
    IF id \in DOMAIN rows
    THEN [rows EXCEPT ![id].completed = FALSE, ![id].completed_at = NULL]
    ELSE rows

\* MarkProjectIncomplete: one UPDATE.
MarkProjectIncomplete(id) ==
    /\ projects' = ProjectsAfterMarkIncomplete(projects, id)
    /\ UNCHANGED <<tasks, nextProjectID, nextTaskID, today, calls>>
    /\ UNCHANGED startupVars

\* CascadeDeleted on a connection opened without _foreign_keys=on.
CascadeDeletedForeignKeysOff(id) == {}

\* tasks.project_id REFERENCES projects(id) ON DELETE CASCADE, under
\* _foreign_keys=on: the tasks a DELETE of project id takes with it.
CascadeDeleted(id) == TasksOf(tasks, id)

\* Both tables after DeleteProject's DELETE.
TablesAfterDeleteProject(id) ==
    [projects |-> Remove(projects, {id}),
     tasks |-> IF id \in DOMAIN projects THEN Remove(tasks, CascadeDeleted(id)) ELSE tasks]

\* DeleteProject: one DELETE.
DeleteProject(id) ==
    /\ LET after == TablesAfterDeleteProject(id)
       IN projects' = after.projects /\ tasks' = after.tasks
    /\ UNCHANGED <<nextProjectID, nextTaskID, today, calls>>
    /\ UNCHANGED startupVars

\* The first n statements of ReorderProjects' loop:
\* UPDATE projects SET sort_order = i+1 WHERE id = ids[i].
RECURSIVE ReorderProjectRows(_, _, _)
ReorderProjectRows(rows, ids, n) ==
    IF n = 0 THEN rows
    ELSE LET prev == ReorderProjectRows(rows, ids, n - 1)
             id == ids[n]
         IN IF id \in DOMAIN prev THEN [prev EXCEPT ![id].sort_order = n] ELSE prev

\* Table projects after ReorderProjects: BEGIN, the loop, COMMIT. n statements
\* of the loop succeed; committed is false when BeginTx, PrepareContext,
\* statement n+1 or Commit returns an error (the deferred Rollback runs).
ProjectsAfterReorder(ids, n, committed) ==
    TxOutcome(projects, ReorderProjectRows(projects, ids, n), committed)

ReorderProjects(ids, n, committed) ==
    /\ n \in 0..Len(ids)
    /\ committed => n = Len(ids)
    /\ projects' = ProjectsAfterReorder(ids, n, committed)
    /\ UNCHANGED <<tasks, nextProjectID, nextTaskID, today, calls>>
    /\ UNCHANGED startupVars

\* ---------------------------------------------------------------- tasks
\* ForeignKeyOK on a connection opened without _foreign_keys=on.
ForeignKeyOKForeignKeysOff(projectID) == TRUE

\* The foreign key check of an INSERT INTO tasks.
ForeignKeyOK(projectID) == projectID \in DOMAIN projects

\* Table tasks after CreateTask's INSERT (unchanged when the INSERT fails).
TasksAfterCreate(projectID, completed, completedAt, sortOrder) ==
    IF ForeignKeyOK(projectID)
    THEN Insert(tasks, nextTaskID,
             [project_id |-> projectID,
              sort_order |-> InsertOrder(sortOrder, tasks, TasksOf(tasks, projectID)),
              completed |-> completed,
              completed_at |-> BoundCompletedAt(completed, completedAt)])
    ELSE tasks

\* CreateTask, the INSERT; on its error the call returns.
CreateTaskInsert(c, projectID, completed, completedAt, sortOrder) ==
    /\ calls[c].pc = "idle"
    /\ tasks' = TasksAfterCreate(projectID, completed, completedAt, sortOrder)
    /\ IF ForeignKeyOK(projectID)
       THEN /\ nextTaskID' = nextTaskID + 1
            /\ calls' = [calls EXCEPT ![c] = [Idle EXCEPT !.pc = "CreateTask_select", !.id = nextTaskID]]
       ELSE UNCHANGED <<nextTaskID, calls>>
    /\ UNCHANGED <<projects, nextProjectID, today>>
    /\ UNCHANGED startupVars

\* What CreateTask returns after its INSERT and LastInsertId.
CreateTaskReturn(rows, id, ok) ==
    LET loaded == QueryRow(rows, id, ok)
    IN IF loaded.err = "nil"
       THEN [err |-> "nil", ID |-> id, SortOrder |-> loaded.row.sort_order]
       ELSE [err |-> "failed to load task sort order"]

\* CreateTask, the SELECT sort_order that follows the INSERT.
CreateTaskSelect(c) ==
    /\ calls[c].pc = "CreateTask_select"
    /\ calls' = [calls EXCEPT ![c] = Idle]
    /\ UNCHANGED <<projects, tasks, nextProjectID, nextTaskID, today>>
    /\ UNCHANGED startupVars

\* UpdateTask, the SELECT completed, completed_at that comes first; without a
\* row ("task not found") the call returns.
UpdateTaskSelect(c, id) ==
    /\ calls[c].pc = "idle"
    /\ calls' =
           IF id \in DOMAIN tasks
           THEN [calls EXCEPT ![c] =
                    [pc |-> "UpdateTask_update",
                     id |-> id,
                     wasCompleted |-> tasks[id].completed,
                     existingCompletedAt |-> tasks[id].completed_at]]
           ELSE calls
    /\ UNCHANGED <<projects, tasks, nextProjectID, nextTaskID, today>>
    /\ UNCHANGED startupVars

\* The error UpdateTask returns from its SELECT (nil when it goes on to the
\* UPDATE).
UpdateTaskSelectError(rows, id, ok) ==
    LET scanned == QueryRow(rows, id, ok)
    IN IF scanned.err = "nil" THEN "nil"
       ELSE IF scanned.err = "sql.ErrNoRows" THEN "task not found"
       ELSE "failed to load task completion state"

\* UpdateCompletedAt without the case existingCompletedAt.Valid of its switch.
UpdateCompletedAtDropsExisting(completed, completedAt, wasCompleted, existingCompletedAt) ==
    IF completed
    THEN IF ~wasCompleted THEN {today}
         ELSE IF completedAt # NULL THEN completedAt
         ELSE NULL
    ELSE NULL

\* The completed_at UpdateTask binds to its UPDATE: the switch over
\* wasCompleted, task.CompletedAt and existingCompletedAt.
UpdateCompletedAt(completed, completedAt, wasCompleted, existingCompletedAt) ==
    IF completed
    THEN IF ~wasCompleted THEN {today}
         ELSE IF completedAt # NULL THEN completedAt
         ELSE IF existingCompletedAt # NULL THEN existingCompletedAt
         ELSE NULL
    ELSE NULL

\* Table tasks after the UPDATE of caller c's UpdateTask.
TasksAfterUpdate(c, completed, completedAt, sortOrder) ==
    LET id == calls[c].id
    IN IF id \in DOMAIN tasks
       THEN [tasks EXCEPT ![id] =
                [project_id |-> tasks[id].project_id,
                 sort_order |-> sortOrder,
                 completed |-> completed,
                 completed_at |->
                     UpdateCompletedAt(completed, completedAt,
                         calls[c].wasCompleted, calls[c].existingCompletedAt)]]
       ELSE tasks

\* UpdateTask, the UPDATE.
UpdateTaskExec(c, completed, completedAt, sortOrder) ==
    /\ calls[c].pc = "UpdateTask_update"
    /\ tasks' = TasksAfterUpdate(c, completed, completedAt, sortOrder)
    /\ calls' = [calls EXCEPT ![c] = Idle]
    /\ UNCHANGED <<projects, nextProjectID, nextTaskID, today>>
    /\ UNCHANGED startupVars

\* DeleteTask: one DELETE.
DeleteTask(id) ==
    /\ tasks' = Remove(tasks, {id})
    /\ UNCHANGED <<projects, nextProjectID, nextTaskID, today, calls>>
    /\ UNCHANGED startupVars

\* TasksAfterToggle with the CASE reading completed after it was flipped.
TasksAfterToggleCaseAfterFlip(rows, id) ==
    IF id \in DOMAIN rows
    THEN [rows EXCEPT
              ![id].completed = ~rows[id].completed,
              ![id].completed_at = IF (~rows[id].completed) = FALSE THEN {today} ELSE NULL]
    ELSE rows

\* Table tasks after ToggleTaskComplete's UPDATE: both SET expressions read the
\* row as it was before the statement.
TasksAfterToggle(rows, id) ==
    IF id \in DOMAIN rows
    THEN [rows EXCEPT
              ![id].completed = ~rows[id].completed,
              ![id].completed_at = IF rows[id].completed = FALSE THEN {today} ELSE NULL]
    ELSE rows

\* ToggleTaskComplete: one UPDATE.
ToggleTaskComplete(id) ==
    /\ tasks' = TasksAfterToggle(tasks, id)
    /\ UNCHANGED <<projects, nextProjectID, nextTaskID, today, calls>>
    /\ UNCHANGED startupVars

\* ReorderTaskRows binding the loop index i instead of i+1.
RECURSIVE ReorderTaskRowsZeroBased(_, _, _, _)
ReorderTaskRowsZeroBased(rows, projectID, ids, n) ==
    IF n = 0 THEN rows
    ELSE LET prev == ReorderTaskRowsZeroBased(rows, projectID, ids, n - 1)
             id == ids[n]
         IN IF id \in DOMAIN prev /\ prev[id].project_id = projectID
            THEN [prev EXCEPT ![id].sort_order = n - 1]
            ELSE prev

\* ReorderTaskRows skipping an id it has already placed.
RECURSIVE ReorderTaskRowsFirstWins(_, _, _, _)
ReorderTaskRowsFirstWins(rows, projectID, ids, n) ==
    IF n = 0 THEN rows
    ELSE LET prev == ReorderTaskRowsFirstWins(rows, projectID, ids, n - 1)
             id == ids[n]
         IN IF /\ id \in DOMAIN prev
               /\ prev[id].project_id = projectID
               /\ \A i \in 1..(n - 1) : ids[i] # id
            THEN [prev EXCEPT ![id].sort_order = n]
            ELSE prev

\* ReorderTaskRows without AND project_id = ? in its WHERE clause.
RECURSIVE ReorderTaskRowsUnscoped(_, _, _, _)
ReorderTaskRowsUnscoped(rows, projectID, ids, n) ==
    IF n = 0 THEN rows
    ELSE LET prev == ReorderTaskRowsUnscoped(rows, projectID, ids, n - 1)
             id == ids[n]
         IN IF id \in DOMAIN prev THEN [prev EXCEPT ![id].sort_order = n] ELSE prev

\* The first n statements of ReorderTasks' loop:
\* UPDATE tasks SET sort_order = i+1 WHERE id = ids[i] AND project_id = projectID.
RECURSIVE ReorderTaskRows(_, _, _, _)
ReorderTaskRows(rows, projectID, ids, n) ==
    IF n = 0 THEN rows
    ELSE LET prev == ReorderTaskRows(rows, projectID, ids, n - 1)
             id == ids[n]
         IN IF id \in DOMAIN prev /\ prev[id].project_id = projectID
            THEN [prev EXCEPT ![id].sort_order = n]
            ELSE prev

\* Both tables after ReorderTasks (see ProjectsAfterReorder): its statements
\* name table tasks alone.
TablesAfterReorderTasks(projectID, ids, n, committed) ==
    [projects |-> projects,
     tasks |-> TxOutcome(tasks, ReorderTaskRows(tasks, projectID, ids, n), committed)]

ReorderTasks(projectID, ids, n, committed) ==
    /\ n \in 0..Len(ids)
    /\ committed => n = Len(ids)
    /\ LET after == TablesAfterReorderTasks(projectID, ids, n, committed)
       IN projects' = after.projects /\ tasks' = after.tasks
    /\ UNCHANGED <<nextProjectID, nextTaskID, today, calls>>
    /\ UNCHANGED startupVars

\* ---------------------------------------------------------------- clock
\* Midnight passes.
Tick ==
    /\ today < MaxDay
    /\ today' = today + 1
    /\ UNCHANGED <<projects, tasks, nextProjectID, nextTaskID, calls>>
    /\ UNCHANGED startupVars

\* ---------------------------------------------------------------- reads
\* GetProject without its errors.Is(err, sql.ErrNoRows) branch.
GetProjectNoRowsWrapped(rows, id, ok) ==
    LET scanned == QueryRow(rows, id, ok)
    IN IF scanned.err = "nil" THEN scanned ELSE [err |-> "failed to get project"]

\* GetProject / GetTask on a table: the row and a nil error, the not-found
\* error, or the engine's error wrapped; no entity comes with an error.
GetProject(rows, id, ok) ==
    LET scanned == QueryRow(rows, id, ok)
    IN IF scanned.err = "nil" THEN scanned
       ELSE IF scanned.err = "sql.ErrNoRows" THEN [err |-> "project not found"]
       ELSE [err |-> "failed to get project"]

GetTask(rows, id, ok) ==
    LET scanned == QueryRow(rows, id, ok)
    IN IF scanned.err = "nil" THEN scanned
       ELSE IF scanned.err = "sql.ErrNoRows" THEN [err |-> "task not found"]
       ELSE [err |-> "failed to get task"]

\* ... ORDER BY sort_order ASC: the orders SQL allows the rows ids to come in
\* (a row of the least sort_order first, then the others in order).
RECURSIVE Ordered(_, _)
Ordered(rows, ids) ==
    IF ids = {} THEN {<<>>}
    ELSE LET first == {i \in ids : \A j \in ids : rows[i].sort_order <= rows[j].sort_order}
         IN UNION {{<<i>> \o s : s \in Ordered(rows, ids \ {i})} : i \in first}

\* ListProjects' query answered without idx_projects_sort_order: ORDER BY
\* sort_order alone, rows of equal sort_order in any order.
ListProjectsUnindexed(rows) == Ordered(rows, DOMAIN rows)

\* CREATE INDEX idx_projects_sort_order ON projects(sort_order): the entries
\* (sort_order, rowid) of the rows ids in key order.
RECURSIVE IndexScan(_, _)
IndexScan(rows, ids) ==
    IF ids = {} THEN <<>>
    ELSE LET first == CHOOSE i \in ids : \A j \in ids \ {i} :
                          \/ rows[i].sort_order < rows[j].sort_order
                          \/ rows[i].sort_order = rows[j].sort_order /\ i < j
         IN <<first>> \o IndexScan(rows, ids \ {first})

\* ListProjects: SELECT ... FROM projects ORDER BY sort_order ASC, which the
\* engine answers by scanning idx_projects_sort_order; the id lists it can
\* return.
ListProjects(rows) == {IndexScan(rows, DOMAIN rows)}

ListTasksByProject(rows, projectID) == Ordered(rows, TasksOf(rows, projectID))

\* The limit argument of the listings: negative, none (0), and up to every row.
Limits == {-1} \cup (0 .. MaxTasks)

\* if limit > 0 { query += " LIMIT ?" } applied whatever the limit.
LimitAlways(listed, limit) ==
    IF limit < Len(listed) THEN SubSeq(listed, 1, IF limit > 0 THEN limit ELSE 0) ELSE listed

\* if limit > 0 { query += " LIMIT ?" }: the first limit rows of the ordered
\* result, every row without it.
Limit(listed, limit) ==
    IF limit > 0 /\ limit < Len(listed) THEN SubSeq(listed, 1, limit) ELSE listed

\* ListTasksByProject(ctx, projectID, limit): the id lists it can return.
ListTasksByProjectLimited(rows, projectID, limit) ==
    {Limit(listed, limit) : listed \in ListTasksByProject(rows, projectID)}

\* ListTasksByProjectFiltered: ... WHERE project_id = ? AND completed = ?
\* ORDER BY sort_order ASC [LIMIT ?].
ListTasksByProjectFiltered(rows, projectID, completed, limit) ==
    {Limit(listed, limit) :
        listed \in Ordered(rows, {t \in TasksOf(rows, projectID) : rows[t].completed = completed})}

\* The calendar day held by a non-null date column.
DayOf(date) == CHOOSE d \in date : TRUE

\* ORDER BY completed_at DESC, sort_order ASC: the rows of the latest
\* completion day first, those of one day by sort_order, rows equal in both
\* in any order.
RECURSIVE OrderedByCompletion(_, _)
OrderedByCompletion(rows, ids) ==
    IF ids = {} THEN {<<>>}
    ELSE LET first == {i \in ids : \A j \in ids :
                          \/ DayOf(rows[i].completed_at) > DayOf(rows[j].completed_at)
                          \/ /\ rows[i].completed_at = rows[j].completed_at
                             /\ rows[i].sort_order <= rows[j].sort_order}
         IN UNION {{<<i>> \o s : s \in OrderedByCompletion(rows, ids \ {i})} : i \in first}

\* The WHERE clause with AND completed_at < ? for the upper bound.
CompletedBetweenUpToExclusive(rows, projectID, from, to) ==
    {t \in TasksOf(rows, projectID) :
        /\ rows[t].completed
        /\ rows[t].completed_at # NULL
        /\ from # NULL => DayOf(rows[t].completed_at) >= DayOf(from)
        /\ to # NULL => DayOf(rows[t].completed_at) < DayOf(to)}

\* WHERE project_id = ? AND completed = TRUE AND completed_at IS NOT NULL
\* [AND completed_at >= ?] [AND completed_at <= ?]: the bounds are bound as
\* Format("2006-01-02") text and compared with the stored text of the same
\* layout, which orders as the days do; a nil bound adds no condition.
CompletedBetween(rows, projectID, from, to) ==
    {t \in TasksOf(rows, projectID) :
        /\ rows[t].completed
        /\ rows[t].completed_at # NULL
        /\ from # NULL => DayOf(rows[t].completed_at) >= DayOf(from)
        /\ to # NULL => DayOf(rows[t].completed_at) <= DayOf(to)}

\* ListTasksByProjectCompletedBetween(ctx, projectID, from, to, limit): the id
\* lists it can return.
ListTasksByProjectCompletedBetween(rows, projectID, from, to, limit) ==
    {Limit(listed, limit) :
        listed \in OrderedByCompletion(rows, CompletedBetween(rows, projectID, from, to))}

\* ------------------------------------------------------ schema migrations
\* File names are sequences of characters, the extension being the last
\* element. The files that may be embedded under migrations/:
MigrationFiles ==
    { <<"0", "1", "_", "a", ".sql">>,
      <<"1", "_", "a", ".sql">>,
      <<"2", "_", "a", ".sql">>,
      <<"0", "3", "_", "a", ".sql">>,
      <<"x", "_", "a", ".sql">>,
      <<"2", ".sql">>,
      <<"3", "_", "a", ".md">> }

\* The sets of files a build may embed.
FileSets == {fs \in SUBSET MigrationFiles : Cardinality(fs) \in 1..MaxFiles}

\* The migrations of this repository.
KnownFiles ==
    { <<"0", "1", "_", "a", ".sql">>,
      <<"2", "_", "a", ".sql">>,
      <<"0", "3", "_", "a", ".sql">> }

\* The position of a character in the order ReadDir sorts names by.
CharCode(ch) ==
    CASE ch = ".md" -> 1
      [] ch = ".sql" -> 2
      [] ch = "0" -> 3
      [] ch = "1" -> 4
      [] ch = "2" -> 5
      [] ch = "3" -> 6
      [] ch = "_" -> 7
      [] ch = "a" -> 8
      [] ch = "x" -> 9

\* filename a sorts before filename b.
RECURSIVE NameLess(_, _)
NameLess(a, b) ==
    IF a = <<>> THEN b # <<>>
    ELSE IF b = <<>> THEN FALSE
    ELSE IF Head(a) = Head(b) THEN NameLess(Tail(a), Tail(b))
    ELSE CharCode(Head(a)) < CharCode(Head(b))

\* migrationsFS.ReadDir("migrations"): the entries sorted by filename.
RECURSIVE ReadDir(_)
ReadDir(fs) ==
    IF fs = {} THEN <<>>
    ELSE LET first == CHOOSE f \in fs : \A g \in fs \ {f} : NameLess(f, g)
         IN <<first>> \o ReadDir(fs \ {first})

\* filepath.Ext / strings.TrimSuffix of a filename.
Ext(filename) == filename[Len(filename)]
Base(filename) == SubSeq(filename, 1, Len(filename) - 1)

Digits == {"0", "1", "2", "3"}
DigitValue(ch) == CharCode(ch) - CharCode("0")

\* strconv.Atoi: the number and a nil error, or an error for an empty or
\* non-numeric string.
RECURSIVE Atoi(_)
Atoi(str) ==
    IF str = <<>> THEN [n |-> 0, err |-> "syntax"]
    ELSE IF str[Len(str)] \notin Digits THEN [n |-> 0, err |-> "syntax"]
    ELSE IF Len(str) = 1 THEN [n |-> DigitValue(str[1]), err |-> "nil"]
    ELSE LET high == Atoi(SubSeq(str, 1, Len(str) - 1))
         IN IF high.err # "nil" THEN high
            ELSE [n |-> 10 * high.n + DigitValue(str[Len(str)]), err |-> "nil"]

\* parseMigrationFilename: the version before the first "_"; an error
\* without a "_" or with a version that is no number.
parseMigrationFilename(filename) ==
    LET base == Base(filename)
        seps == {i \in DOMAIN base : base[i] = "_"}
    IN IF seps = {} THEN [version |-> 0, err |-> "invalid migration filename"]
       ELSE LET first == CHOOSE i \in seps : \A j \in seps : i <= j
                number == Atoi(SubSeq(base, 1, first - 1))
            IN IF number.err # "nil"
               THEN [version |-> 0, err |-> "invalid migration version"]
               ELSE [version |-> number.n, err |-> "nil"]

\* The .sql entries in the order ReadDir lists them.
SqlEntries(fs) == SelectSeq(ReadDir(fs), LAMBDA f : Ext(f) = ".sql")

\* parseMigrationFilename of each entry, in the order listed.
RECURSIVE ParsedEntries(_)
ParsedEntries(entries) ==
    IF entries = <<>> THEN <<>>
    ELSE <<parseMigrationFilename(Head(entries))>> \o ParsedEntries(Tail(entries))

\* loadMigrations handing on the slice in the order the files were listed.
SortByVersionUnsorted(versions) == versions

\* sort.Slice by version, ascending.
RECURSIVE SortByVersion(_)
SortByVersion(versions) ==
    IF versions = <<>> THEN <<>>
    ELSE LET least == CHOOSE i \in DOMAIN versions :
                          \A j \in DOMAIN versions : versions[i] <= versions[j]
         IN <<versions[least]>> \o
                SortByVersion(SubSeq(versions, 1, least - 1) \o
                              SubSeq(versions, least + 1, Len(versions)))

\* loadMigrations without its seen map.
loadMigrationsNoSeen(fs) ==
    LET parsed == ParsedEntries(SqlEntries(fs))
        bad == {i \in DOMAIN parsed : parsed[i].err # "nil"}
        firstBad == CHOOSE i \in bad : \A j \in bad : i <= j
    IN IF bad # {}
       THEN [err |-> parsed[firstBad].err, migrations |-> <<>>]
       ELSE [err |-> "nil",
             migrations |-> SortByVersion([i \in DOMAIN parsed |-> parsed[i].version])]

\* loadMigrations: the error of the first entry that is malformed or repeats
\* a version, otherwise the versions sorted.
loadMigrations(fs) ==
    LET parsed == ParsedEntries(SqlEntries(fs))
        bad == {i \in DOMAIN parsed :
                    \/ parsed[i].err # "nil"
                    \/ \E j \in 1..(i - 1) : parsed[j].version = parsed[i].version}
        firstBad == CHOOSE i \in bad : \A j \in bad : i <= j
    IN IF bad # {}
       THEN [err |-> IF parsed[firstBad].err # "nil" THEN parsed[firstBad].err
                     ELSE "duplicate migration version",
             migrations |-> <<>>]
       ELSE [err |-> "nil",
             migrations |-> SortByVersion([i \in DOMAIN parsed |-> parsed[i].version])]

\* The tables and columns a migration's script adds. Version 1 is
\* 001_initial_schema.sql; versions 2 and 3 add the completion columns.
Changes(version) ==
    CASE version = 1 -> {"projects", "tasks"}
      [] version = 2 -> {"tasks.completed_at"}
      [] version = 3 -> {"projects.completed", "projects.completed_at"}
      [] OTHER -> {}

\* Every table and column of the migrated schema.
FullSchema == {"schema_migrations"} \cup UNION {Changes(f) : f \in 1..3}

\* The script's own SQL error: CREATE TABLE IF NOT EXISTS never has one, ALTER
\* TABLE ADD COLUMN does without the table and with the column already there.
ScriptFails(version, sch) ==
    CASE version = 2 -> "tasks" \notin sch \/ Changes(2) \cap sch # {}
      [] version = 3 -> "projects" \notin sch \/ Changes(3) \cap sch # {}
      [] OTHER -> FALSE

\* ADD COLUMN: the existing rows get the column with its default.
AddColumn(rows, column, default) ==
    [id \in DOMAIN rows |->
        [f \in DOMAIN rows[id] \cup {column} |->
            IF f \in DOMAIN rows[id] THEN rows[id][f] ELSE default]]

\* The database after a migration's script has run.
RunScript(version, db) ==
    [db EXCEPT !.schema = db.schema \cup Changes(version),
               !.tasks = IF version = 2
                         THEN AddColumn(db.tasks, "completed_at", NULL)
                         ELSE db.tasks,
               !.projects = IF version = 3
                            THEN AddColumn(AddColumn(db.projects, "completed", FALSE),
                                           "completed_at", NULL)
                            ELSE db.projects]

\* The database the statements of a transaction work on.
Database == [schema |-> schema, ledger |-> ledger, projects |-> projects, tasks |-> tasks]

\* NewSQLiteStore as it enters runMigrations on a connection just opened.
Starting ==
    [pc |-> "ensure", migrations |-> <<>>, applied |-> {}, i |-> 0,
     baselineVersion |-> 0, ran |-> <<>>, err |-> "nil", open |-> TRUE]

\* runMigrations returns err: NewSQLiteStore closes the connection and returns
\* the error and no store.
Failed(b, err) == [b EXCEPT !.pc = "failed", !.err = err, !.open = FALSE]

\* ensureMigrationsTable: CREATE TABLE IF NOT EXISTS schema_migrations.
ensureMigrationsTable(ok) ==
    /\ boot.pc = "ensure"
    /\ IF ok
       THEN /\ schema' = schema \cup {"schema_migrations"}
            /\ boot' = [boot EXCEPT !.pc = "load"]
       ELSE /\ schema' = schema
            /\ boot' = Failed(boot, "failed to ensure schema_migrations table")
    /\ UNCHANGED <<projects, tasks, nextProjectID, nextTaskID, today, calls>>
    /\ UNCHANGED <<files, ledger, startups>>

\* runMigrations, the call of loadMigrations.
LoadMigrations ==
    /\ boot.pc = "load"
    /\ LET loaded == loadMigrations(files)
       IN boot' = IF loaded.err # "nil"
                  THEN Failed(boot, loaded.err)
                  ELSE [boot EXCEPT !.pc = "bootstrap", !.migrations = loaded.migrations]
    /\ UNCHANGED <<projects, tasks, nextProjectID, nextTaskID, today, calls>>
    /\ UNCHANGED <<files, schema, ledger, startups>>

\* bootstrapLegacyMigrations going on after its early returns: count = 0 and
\* not (!hasProjects && !hasTasks).
BootstrapApplies == ledger = {} /\ ~("projects" \notin schema /\ "tasks" \notin schema)

\* BaselineVersion taking every database without ledger for a current one.
BaselineVersionLatest(sch) == 3

\* baselineVersion as inferred from the columns.
BaselineVersion(sch) ==
    IF "projects.completed" \in sch /\ "projects.completed_at" \in sch THEN 3
    ELSE IF "tasks.completed_at" \in sch THEN 2
    ELSE 1

\* The versions bootstrapLegacyMigrations' loop inserts before its break.
BaselineMigrations(migrations, baseline) ==
    SelectSeq(migrations, LAMBDA version : version <= baseline)

\* LedgerAfterBootstrap with the INSERTs sent on db instead of tx.
LedgerAfterBootstrapOutsideTx(migrations, n, committed) ==
    LET toRecord == BaselineMigrations(migrations, BaselineVersion(schema))
    IN IF BootstrapApplies THEN ledger \cup {toRecord[k] : k \in 1..n} ELSE ledger

\* The ledger after bootstrapLegacyMigrations' transaction has run n INSERTs
\* and then committed or not.
LedgerAfterBootstrap(migrations, n, committed) ==
    LET toRecord == BaselineMigrations(migrations, BaselineVersion(schema))
    IN IF BootstrapApplies
       THEN TxOutcome(ledger, ledger \cup {toRecord[k] : k \in 1..n}, committed)
       ELSE ledger

\* bootstrapLegacyMigrations. readOK: the queries before the transaction and
\* its Begin succeed; n: the INSERTs that succeed; committed: Commit succeeds.
bootstrapLegacyMigrations(readOK, n, committed) ==
    /\ boot.pc = "bootstrap"
    /\ LET toRecord == BaselineMigrations(boot.migrations, BaselineVersion(schema))
       IN IF ~readOK
          THEN /\ n = 0 /\ ~committed
               /\ ledger' = ledger
               /\ boot' = Failed(boot, "failed to read the schema")
          ELSE IF ~BootstrapApplies
          THEN /\ n = 0 /\ committed
               /\ ledger' = ledger
               /\ boot' = [boot EXCEPT !.pc = "applied"]
          ELSE /\ n \in 0..Len(toRecord)
               /\ committed => n = Len(toRecord)
               /\ ledger' = LedgerAfterBootstrap(boot.migrations, n, committed)
               /\ boot' = IF committed
                          THEN [boot EXCEPT !.pc = "applied",
                                            !.baselineVersion = BaselineVersion(schema)]
                          ELSE Failed(boot, "failed to bootstrap legacy migration")
    /\ UNCHANGED <<projects, tasks, nextProjectID, nextTaskID, today, calls>>
    /\ UNCHANGED <<files, schema, startups>>

\* AppliedVersions returning its map before the rows are scanned.
AppliedVersionsUnscanned(rows) == {}

\* The map appliedMigrationVersions builds from the rows of the ledger.
AppliedVersions(rows) == rows

\* appliedMigrationVersions: SELECT version FROM schema_migrations.
appliedMigrationVersions(ok) ==
    /\ boot.pc = "applied"
    /\ boot' = IF ok
               THEN [boot EXCEPT !.pc = "apply", !.applied = AppliedVersions(ledger), !.i = 1]
               ELSE Failed(boot, "failed to query schema_migrations")
    /\ UNCHANGED <<projects, tasks, nextProjectID, nextTaskID, today, calls>>
    /\ UNCHANGED <<files, schema, ledger, startups>>

\* runMigrations' loop, an m with applied[m.version]: continue.
SkipApplied ==
    /\ boot.pc = "apply"
    /\ boot.i <= Len(boot.migrations)
    /\ boot.migrations[boot.i] \in boot.applied
    /\ boot' = [boot EXCEPT !.i = boot.i + 1]
    /\ UNCHANGED <<projects, tasks, nextProjectID, nextTaskID, today, calls>>
    /\ UNCHANGED <<files, schema, ledger, startups>>

\* Where applyMigration may stop with an error from the engine.
Stops == {"begin", "script", "record", "commit", "none"}

\* applyMigration(m): the statements that succeed when the engine fails at stop.
ScriptRuns(stop) == stop # "begin"
ScriptDone(version, stop) ==
    ScriptRuns(stop) /\ stop # "script" /\ ~ScriptFails(version, schema)
RecordDone(version, stop) ==
    ScriptDone(version, stop) /\ stop # "record" /\ version \notin ledger
Committed(version, stop) == RecordDone(version, stop) /\ stop # "commit"

\* DatabaseAfterApply with the script sent on db instead of tx.
DatabaseAfterApplyScriptOutsideTx(version, stop) ==
    LET scripted == IF ScriptDone(version, stop) THEN RunScript(version, Database)
                    ELSE Database
        recorded == IF RecordDone(version, stop)
                    THEN [scripted EXCEPT !.ledger = scripted.ledger \cup {version}]
                    ELSE scripted
    IN TxOutcome(scripted, recorded, Committed(version, stop))

\* The database after applyMigration(m) of the given version.
DatabaseAfterApply(version, stop) ==
    LET scripted == IF ScriptDone(version, stop) THEN RunScript(version, Database)
                    ELSE Database
        recorded == IF RecordDone(version, stop)
                    THEN [scripted EXCEPT !.ledger = scripted.ledger \cup {version}]
                    ELSE scripted
    IN TxOutcome(Database, recorded, Committed(version, stop))

\* runMigrations' loop, an m not in applied: applyMigration(db, m).
applyMigration(stop) ==
    /\ boot.pc = "apply"
    /\ boot.i <= Len(boot.migrations)
    /\ boot.migrations[boot.i] \notin boot.applied
    /\ LET version == boot.migrations[boot.i]
           after == DatabaseAfterApply(version, stop)
           ran == IF ScriptRuns(stop) THEN Append(boot.ran, version) ELSE boot.ran
       IN /\ schema' = after.schema
          /\ ledger' = after.ledger
          /\ projects' = after.projects
          /\ tasks' = after.tasks
          /\ boot' = IF Committed(version, stop)
                     THEN [boot EXCEPT !.i = boot.i + 1, !.ran = ran]
                     ELSE Failed([boot EXCEPT !.ran = ran], "failed to apply migration")
    /\ UNCHANGED <<nextProjectID, nextTaskID, today, calls>>
    /\ UNCHANGED <<files, startups>>

\* runMigrations returns nil and NewSQLiteStore returns the store.
FinishMigrations ==
    /\ boot.pc = "apply"
    /\ boot.i > Len(boot.migrations)
    /\ boot' = [boot EXCEPT !.pc = "done"]
    /\ UNCHANGED <<projects, tasks, nextProjectID, nextTaskID, today, calls>>
    /\ UNCHANGED <<files, schema, ledger, startups>>

\* The process starts again and calls NewSQLiteStore on the same file.
Restart ==
    /\ boot.pc \in {"done", "failed"}
    /\ startups < MaxStartups
    /\ startups' = startups + 1
    /\ boot' = Starting
    /\ UNCHANGED <<projects, tasks, nextProjectID, nextTaskID, today, calls>>
    /\ UNCHANGED <<files, schema, ledger>>

\* NewSQLiteStore has returned the store of a new database file.
Migrated ==
    /\ files = KnownFiles
    /\ schema = FullSchema
    /\ ledger = {1, 2, 3}
    /\ boot = [Starting EXCEPT !.pc = "done", !.migrations = <<1, 2, 3>>,
                                !.i = 4, !.ran = <<1, 2, 3>>]
    /\ startups = 1

\* The rows of a project and a task of it under the columns of sch.
LegacyProject(sch) ==
    IF Changes(3) \subseteq sch
    THEN [sort_order |-> 1, completed |-> FALSE, completed_at |-> NULL]
    ELSE [sort_order |-> 1]
LegacyTask(sch) ==
    IF Changes(2) \subseteq sch
    THEN [project_id |-> 1, sort_order |-> 1, completed |-> FALSE, completed_at |-> NULL]
    ELSE [project_id |-> 1, sort_order |-> 1, completed |-> FALSE]

\* The schemas a database file has before the ledger existed: none, or what
\* an earlier build's migrate() created, wholly or up to its first table.
LegacySchemas ==
    { {},
      {"projects"},
      Changes(1),
      Changes(1) \cup Changes(2),
      Changes(1) \cup Changes(2) \cup Changes(3) }

\* A database file without ledger, empty or with one project and one task.
UnmigratedDatabase(sch, seeded) ==
    /\ schema = sch
    /\ ledger = {}
    /\ projects = IF seeded THEN <<LegacyProject(sch)>> ELSE <<>>
    /\ tasks = IF seeded THEN <<LegacyTask(sch)>> ELSE <<>>
    /\ nextProjectID = IF seeded THEN 2 ELSE 1
    /\ nextTaskID = IF seeded THEN 2 ELSE 1
    /\ today = 1
    /\ calls = [c \in Clients |-> Idle]
    /\ boot = Starting
    /\ startups = 1

\* NewSQLiteStore on a new database file: the migrated, empty schema.
Init ==
    /\ projects = <<>>
    /\ tasks = <<>>
    /\ nextProjectID = 1
    /\ nextTaskID = 1
    /\ today = 1
    /\ calls = [c \in Clients |-> Idle]
    /\ Migrated

\* SpecMigrate: NewSQLiteStore, up to MaxStartups times, on a database file
\* that has no ledger yet, with any of the file sets embedded.
InitMigrate ==
    \E fs \in FileSets, sch \in LegacySchemas, seeded \in BOOLEAN :
        /\ files = fs
        /\ seeded => Changes(1) \subseteq sch
        /\ UnmigratedDatabase(sch, seeded)

NextMigrate ==
    \/ \E ok \in BOOLEAN : ensureMigrationsTable(ok)
    \/ LoadMigrations
    \/ \E readOK \in BOOLEAN, n \in 0..MaxFiles, committed \in BOOLEAN :
           bootstrapLegacyMigrations(readOK, n, committed)
    \/ \E ok \in BOOLEAN : appliedMigrationVersions(ok)
    \/ SkipApplied
    \/ \E stop \in Stops : applyMigration(stop)
    \/ FinishMigrations
    \/ Restart

SpecMigrate == InitMigrate /\ [][NextMigrate]_vars

\* SpecLegacy: SpecMigrate on the database of an earlier build that has the
\* projects and tasks tables of the initial schema and nothing else.
InitLegacy ==
    \E fs \in FileSets, seeded \in BOOLEAN :
        /\ files = fs
        /\ UnmigratedDatabase(Changes(1), seeded)

SpecLegacy == InitLegacy /\ [][NextMigrate]_vars

\* The schemas bootstrapLegacyMigrations tells apart with tableExists and
\* columnExists: any of the two tables, and any of the three columns it looks
\* for on a table that is there.
LegacyShapes ==
    {sch \in SUBSET (Changes(1) \cup Changes(2) \cup Changes(3)) :
        /\ "tasks.completed_at" \in sch => "tasks" \in sch
        /\ Changes(3) \cap sch # {} => "projects" \in sch}

\* SpecShapes: NewSQLiteStore with the repository's migrations on an empty
\* database file of any of these schemas, without ledger.
InitShapes ==
    \E sch \in LegacyShapes :
        /\ files = KnownFiles
        /\ UnmigratedDatabase(sch, FALSE)

SpecShapes == InitShapes /\ [][NextMigrate]_vars

\* ----------------------------------------------------------- validation
\* A string is the sequence of its bytes.
Whitespace == {" ", "\t"}
Chars == Whitespace \cup {"a"}
Strings == SeqsUpTo(Chars, MaxStringLen)

\* strings.TrimSpace: the string without its leading and trailing white space.
RECURSIVE TrimLeft(_)
TrimLeft(str) ==
    IF str # <<>> /\ Head(str) \in Whitespace THEN TrimLeft(Tail(str)) ELSE str
RECURSIVE TrimRight(_)
TrimRight(str) ==
    IF str # <<>> /\ str[Len(str)] \in Whitespace
    THEN TrimRight(SubSeq(str, 1, Len(str) - 1))
    ELSE str
TrimSpace(str) == TrimRight(TrimLeft(str))

\* The Project structs handed to Validate: Name, Type, TargetDate.
ProjectTypes == {"project", "category", "Project", ""}
ProjectStructs == [Name : Strings, Type : ProjectTypes, TargetDate : NullableDays]

\* Project.Validate with the type checked before the name.
ProjectValidateTypeFirst(p) ==
    IF p.Type # "project" /\ p.Type # "category"
    THEN "type must be 'project' or 'category'"
    ELSE IF TrimSpace(p.Name) = <<>> THEN "name is required"
    ELSE IF p.Type = "category" /\ p.TargetDate # NULL
    THEN "category cannot have a target date"
    ELSE "nil"

\* Project.Validate: the error it returns, "nil" for none.
ProjectValidate(p) ==
    IF TrimSpace(p.Name) = <<>> THEN "name is required"
    ELSE IF p.Type # "project" /\ p.Type # "category"
    THEN "type must be 'project' or 'category'"
    ELSE IF p.Type = "category" /\ p.TargetDate # NULL
    THEN "category cannot have a target date"
    ELSE "nil"

\* The Task structs handed to Validate: ProjectID, Description, Priority and
\* Notes of a length around the limit.
Priorities == {"high", "medium", "low", "urgent", ""}
NotesOfLen(n) == [i \in 1..n |-> "a"]
NotesValues == {NotesOfLen(n) : n \in {0, MaxNotesLen - 1, MaxNotesLen, MaxNotesLen + 1}}
TaskStructs ==
    [ProjectID : {-1, 0, 1}, Description : Strings, Priority : Priorities, Notes : NotesValues]

\* Task.Validate as it was before the notes were limited.
TaskValidateWithoutNotes(t) ==
    IF TrimSpace(t.Description) = <<>> THEN "description is required"
    ELSE IF t.ProjectID = 0 THEN "project_id is required"
    ELSE IF t.Priority # "high" /\ t.Priority # "medium" /\ t.Priority # "low"
    THEN "priority must be 'high', 'medium', or 'low'"
    ELSE "nil"

\* Task.Validate: the error it returns, "nil" for none.
TaskValidate(t) ==
    IF TrimSpace(t.Description) = <<>> THEN "description is required"
    ELSE IF t.ProjectID = 0 THEN "project_id is required"
    ELSE IF t.Priority # "high" /\ t.Priority # "medium" /\ t.Priority # "low"
    THEN "priority must be 'high', 'medium', or 'low'"
    ELSE IF Len(t.Notes) > MaxNotesLen THEN "notes must be 255 characters or fewer"
    ELSE "nil"

\* A caller calls p.Validate() / t.Validate() on the struct it holds.
ValidateProject(c) ==
    /\ calls[c].pc = "Project.Validate"
    /\ calls' = [calls EXCEPT ![c] =
                    [pc |-> "Project.Validate returned",
                     project |-> calls[c].project,
                     err |-> ProjectValidate(calls[c].project)]]
    /\ UNCHANGED <<projects, tasks, nextProjectID, nextTaskID, today>>
    /\ UNCHANGED startupVars

ValidateTask(c) ==
    /\ calls[c].pc = "Task.Validate"
    /\ calls' = [calls EXCEPT ![c] =
                    [pc |-> "Task.Validate returned",
                     task |-> calls[c].task,
                     err |-> TaskValidate(calls[c].task)]]
    /\ UNCHANGED <<projects, tasks, nextProjectID, nextTaskID, today>>
    /\ UNCHANGED startupVars

\* ------------------------------------------------------ dates on disk
\* The text of a date column is a sequence of fields: a date ("1" is the date
\* of day 1), "T" or " ", a clock, a fraction of a second, a zone. White space
\* around it is made of the fields of Whitespace.
DateTexts == {ToString(d) : d \in Days}
Clock == "15:04:05"
Fractions == {".5"}
Offsets == {"+00:00", "-05:00"}

\* date.Format("2006-01-02") of the date held as {d}.
FormatDate(date) == <<ToString(CHOOSE d \in Days : date = {d})>>

\* sqliteDateLayouts with the plain date alone.
sqliteDateLayoutsPlainOnly == << <<"2006-01-02">> >>

\* sqliteDateLayouts, each layout as the sequence of its elements.
sqliteDateLayouts ==
    << <<"2006-01-02">>,
       <<"2006-01-02", "T", "15:04:05", "Z07:00">>,
       <<"2006-01-02", " ", "15:04:05">>,
       <<"2006-01-02", " ", "15:04:05", "-07:00">>,
       <<"2006-01-02", " ", "15:04:05", ".999999999", "-07:00">>,
       <<"2006-01-02", "T", "15:04:05", ".999999999", "-07:00">> >>

\* time.Parse(layout, value) succeeds: every element of the layout finds its
\* field and no text is left. A fraction may follow the seconds though the
\* layout names none, and may be missing where the layout names one of 9s.
RECURSIVE ParseOK(_, _)
ParseOK(layout, value) ==
    IF layout = <<>> THEN value = <<>>
    ELSE LET std == Head(layout)
             rest == Tail(layout)
         IN IF std = ".999999999"
            THEN IF value # <<>> /\ Head(value) \in Fractions
                 THEN ParseOK(rest, Tail(value))
                 ELSE ParseOK(rest, value)
            ELSE /\ value # <<>>
                 /\ CASE std = "2006-01-02" -> Head(value) \in DateTexts
                      [] std = "15:04:05" -> Head(value) = Clock
                      [] std = "Z07:00" -> Head(value) \in {"Z"} \cup Offsets
                      [] std = "-07:00" -> Head(value) \in Offsets
                      [] OTHER -> Head(value) = std
                 /\ IF /\ std = "15:04:05"
                       /\ rest = <<>> \/ Head(rest) # ".999999999"
                       /\ Len(value) > 1
                       /\ value[2] \in Fractions
                    THEN ParseOK(rest, Tail(Tail(value)))
                    ELSE ParseOK(rest, Tail(value))

\* The date of a value that a layout parses: that of its first field.
ParsedDate(value) == {CHOOSE d \in Days : ToString(d) = Head(value)}

\* parseSQLiteDate: no date for an empty value, the date under the first
\* layout that parses it, an error when none does.
parseSQLiteDate(value) ==
    LET trimmed == TrimSpace(value)
    IN IF trimmed = <<>> THEN [date |-> NULL, err |-> "nil"]
       ELSE IF \E i \in DOMAIN sqliteDateLayouts : ParseOK(sqliteDateLayouts[i], trimmed)
       THEN [date |-> ParsedDate(trimmed), err |-> "nil"]
       ELSE [date |-> NULL, err |-> "invalid date format"]

\* What a date column may hold: NULL, or a text, as sql.NullString scans it.
SqlNull == [valid |-> FALSE, string |-> <<>>]
SqlText(text) == [valid |-> TRUE, string |-> text]

\* The texts of a legacy database: the bodies a date column was written with,
\* well formed or not, bare or with white space around.
TextBodies ==
    {<<>>, <<"soon">>}
    \cup {<<d>> : d \in DateTexts}
    \cup {<<d, sep, Clock>> \o f \o z :
            d \in DateTexts, sep \in {"T", " "},
            f \in {<<>>} \cup {<<x>> : x \in Fractions},
            z \in {<<>>, <<"Z">>} \cup {<<o>> : o \in Offsets}}
LegacyTexts ==
    TextBodies \cup {<<" ">> \o b : b \in TextBodies} \cup {b \o <<"\t">> : b \in TextBodies}

\* CreateTask binds due_date: NULL for no date, else its Format("2006-01-02").
WriteDueDate(c) ==
    /\ calls[c].pc = "CreateTask"
    /\ calls' = [calls EXCEPT ![c] =
                    [pc |-> "GetTask",
                     writer |-> "CreateTask",
                     written |-> calls[c].written,
                     stored |-> IF calls[c].written = NULL THEN SqlNull
                                ELSE SqlText(FormatDate(calls[c].written))]]
    /\ UNCHANGED <<projects, tasks, nextProjectID, nextTaskID, today>>
    /\ UNCHANGED startupVars

\* GetTask scans due_date and, when it is not NULL, parses it.
ReadDueDate(c) ==
    /\ calls[c].pc = "GetTask"
    /\ calls' = [calls EXCEPT ![c] =
                    [pc |-> "GetTask returned",
                     writer |-> calls[c].writer,
                     written |-> calls[c].written,
                     stored |-> calls[c].stored,
                     read |-> IF calls[c].stored.valid
                              THEN parseSQLiteDate(calls[c].stored.string)
                              ELSE [date |-> NULL, err |-> "nil"]]]
    /\ UNCHANGED <<projects, tasks, nextProjectID, nextTaskID, today>>
    /\ UNCHANGED startupVars

\* ------------------------------------------------------------ whole rows
\* The operations above follow the columns that order rows and date their
\* completion. Those below write every column the handlers fill or the store
\* stamps: name, type and target_date of a project, description, notes and
\* priority of a task, created_at and updated_at of both (now to the day).
\* Their arguments are the structs the store is handed, which the handlers
\* have validated (the CHECK constraints on type and priority hold of them).

\* rows with updated_at = now in the rows ids.
Stamped(rows, ids) ==
    [x \in DOMAIN rows |-> IF x \in ids THEN [rows[x] EXCEPT !.updated_at = today] ELSE rows[x]]

\* Table projects after CreateProject's INSERT.
CreateProjectRows(p) ==
    Insert(projects, nextProjectID,
        ProjectsAfterCreate(p.SortOrder)[nextProjectID] @@
            [name |-> p.Name, type |-> p.Type, target_date |-> p.TargetDate,
             created_at |-> today, updated_at |-> today])

\* Table projects after UpdateProject's UPDATE: every column but id and
\* created_at from the struct, updated_at = now.
UpdateProjectRows(p) ==
    IF p.ID \in DOMAIN projects
    THEN [projects EXCEPT ![p.ID] =
             ProjectsAfterUpdate(projects, p.ID, p.Completed, p.CompletedAt, p.SortOrder)[p.ID] @@
                 [name |-> p.Name, type |-> p.Type, target_date |-> p.TargetDate,
                  created_at |-> projects[p.ID].created_at, updated_at |-> today]]
    ELSE projects

\* Table projects after MarkProjectComplete's / MarkProjectIncomplete's UPDATE.
MarkProjectCompleteRows(id) == Stamped(ProjectsAfterMarkComplete(projects, id), {id})
MarkProjectIncompleteRows(id) == Stamped(ProjectsAfterMarkIncomplete(projects, id), {id})

\* Table projects after ReorderProjects: UPDATE projects SET sort_order = ?
\* WHERE id = ? names no other column.
ReorderProjectsRows(ids, n, committed) == ProjectsAfterReorder(ids, n, committed)

\* Table tasks after CreateTask's INSERT (unchanged when it fails).
CreateTaskRows(t) ==
    IF ForeignKeyOK(t.ProjectID)
    THEN Insert(tasks, nextTaskID,
             TasksAfterCreate(t.ProjectID, t.Completed, t.CompletedAt, t.SortOrder)[nextTaskID] @@
                 [description |-> t.Description, notes |-> t.Notes, priority |-> t.Priority,
                  created_at |-> today, updated_at |-> today])
    ELSE tasks

\* Table tasks after the UPDATE of caller c's UpdateTask: every column but id,
\* project_id and created_at from the struct, updated_at = now.
UpdateTaskRows(c, t) ==
    IF calls[c].id \in DOMAIN tasks
    THEN [tasks EXCEPT ![calls[c].id] =
             TasksAfterUpdate(c, t.Completed, t.CompletedAt, t.SortOrder)[calls[c].id] @@
                 [description |-> t.Description, notes |-> t.Notes, priority |-> t.Priority,
                  created_at |-> tasks[calls[c].id].created_at, updated_at |-> today]]
    ELSE tasks

\* Table tasks after ToggleTaskComplete's UPDATE.
ToggleTaskCompleteRows(id) == Stamped(TasksAfterToggle(tasks, id), {id})

\* Table tasks after ReorderTasks: UPDATE tasks SET sort_order = ? WHERE id = ?
\* AND project_id = ? names no other column.
ReorderTasksRows(projectID, ids, n, committed) ==
    TablesAfterReorderTasks(projectID, ids, n, committed).tasks

\* -------------------------------------------------------------- handlers
\* An HTTP handler is followed from one statement it sends to the store to the
\* next; what it computes before a statement belongs to that statement's
\* step. calls[c] holds the handler's locals while it runs, and the status of
\* an error response once it has answered with one.

\* respondError(w, code, ...): the request is answered.
Responded(code) == [pc |-> "idle", status |-> code]

\* respondError(w, code, message), the body it writes included, and
\* respondServerError(w, err), which logs err and answers without it.
respondError(code, message) == [pc |-> "idle", status |-> code, body |-> message]
respondServerError(err) == respondError(500, "internal server error")

\* err.Error() of the error store.CreateTask returns, "nil" for none: the
\* driver's message wrapped by fmt.Errorf("failed to create task: %w", err).
CreateTaskError(projectID) ==
    IF ForeignKeyOK(projectID) THEN "nil"
    ELSE "failed to create task: FOREIGN KEY constraint failed"

\* The values of the form field target_date, and parseDate of them.
FormDates == {"", "soon"} \cup {ToString(d) : d \in Days}
parseDate(str) ==
    IF str = "" THEN NULL
    ELSE IF \E d \in Days : ToString(d) = str
    THEN {CHOOSE d \in Days : ToString(d) = str}
    ELSE NULL

\* The forms of the project and task requests.
ProjectForms ==
    [name : {<<" ">>, <<"a">>}, type : {"project", "category", "other"}, target_date : FormDates]
TaskForms ==
    [description : {<<" ">>, <<"a">>},
     priority : {"high", "urgent"},
     notes : {NotesOfLen(0), NotesOfLen(MaxNotesLen + 1)},
     completed : {"", "true"}]

\* The project ids a request's URL may carry.
URLProjectIDs == {0} \cup ProjectIDs

\* The struct Handlers.CreateProject builds from the form.
NewProject(form) ==
    [Name |-> form.name, Type |-> form.type,
     TargetDate |-> parseDate(form.target_date), SortOrder |-> 0]

\* CreateProjectRequest with the store called before Validate.
CreateProjectRequestStoresFirst(form) ==
    [status |-> IF ProjectValidate(NewProject(form)) # "nil" THEN 400 ELSE 200,
     projects |-> CreateProjectRows(NewProject(form))]

\* What Handlers.CreateProject does with a form: 400 and nothing stored when
\* Validate fails, else store.CreateProject's INSERT.
CreateProjectRequest(form) ==
    IF ProjectValidate(NewProject(form)) # "nil"
    THEN [status |-> 400, projects |-> projects]
    ELSE [status |-> 200, projects |-> CreateProjectRows(NewProject(form))]

\* Handlers.CreateProject up to the INSERT of store.CreateProject.
HandlersCreateProject(c, form) ==
    /\ calls[c].pc = "idle"
    /\ LET request == CreateProjectRequest(form)
       IN /\ projects' = request.projects
          /\ IF request.status = 400
             THEN /\ calls' = [calls EXCEPT ![c] = Responded(400)]
                  /\ nextProjectID' = nextProjectID
             ELSE /\ nextProjectID' = nextProjectID + 1
                  /\ calls' = [calls EXCEPT ![c] =
                                  [Idle EXCEPT !.pc = "CreateProject_select",
                                               !.id = nextProjectID]]
    /\ UNCHANGED <<tasks, nextTaskID, today>>
    /\ UNCHANGED startupVars

\* Handlers.UpdateProject, store.GetProject: 404 on any error.
HandlersUpdateProjectGet(c, id, ok) ==
    /\ calls[c].pc = "idle"
    /\ LET got == GetProject(projects, id, ok)
       IN calls' = [calls EXCEPT ![c] =
                       IF got.err # "nil" THEN Responded(404)
                       ELSE [pc |-> "Handlers.UpdateProject", id |-> id, project |-> got.row]]
    /\ UNCHANGED <<projects, tasks, nextProjectID, nextTaskID, today>>
    /\ UNCHANGED startupVars

\* UpdatedProject without if project.Type == "category" { TargetDate = nil }.
UpdatedProjectKeepsDate(id, read, form) ==
    [ID |-> id,
     Name |-> form.name,
     Type |-> form.type,
     TargetDate |-> parseDate(form.target_date),
     Completed |-> read.completed,
     CompletedAt |-> read.completed_at,
     SortOrder |-> read.sort_order]

\* The struct Handlers.UpdateProject hands to Validate and to the store: the
\* project it read with name, type and target date from the form, the target
\* date cleared for a category.
UpdatedProject(id, read, form) ==
    [ID |-> id,
     Name |-> form.name,
     Type |-> form.type,
     TargetDate |-> IF form.type = "category" THEN NULL ELSE parseDate(form.target_date),
     Completed |-> read.completed,
     CompletedAt |-> read.completed_at,
     SortOrder |-> read.sort_order]

\* What Handlers.UpdateProject does with a form after GetProject: 400 and
\* nothing stored when Validate fails, else store.UpdateProject.
UpdateProjectRequest(c, form) ==
    LET project == UpdatedProject(calls[c].id, calls[c].project, form)
    IN IF ProjectValidate(project) # "nil"
       THEN [status |-> 400, projects |-> projects]
       ELSE [status |-> 200, projects |-> UpdateProjectRows(project)]

\* Handlers.UpdateProject after GetProject.
HandlersUpdateProjectStore(c, form) ==
    /\ calls[c].pc = "Handlers.UpdateProject"
    /\ LET request == UpdateProjectRequest(c, form)
       IN /\ projects' = request.projects
          /\ calls' = [calls EXCEPT ![c] =
                          IF request.status = 400 THEN Responded(400) ELSE Idle]
    /\ UNCHANGED <<tasks, nextProjectID, nextTaskID, today>>
    /\ UNCHANGED startupVars

\* What store.ListTasksByProject(ctx, projectID, 0) may return: every row of
\* the project and no error, or an error with the nil slice (the query, a scan
\* or a date failed) or with the rows read before rows.Err() reported it.
Listings(projectID) ==
    LET n == Cardinality(TasksOf(tasks, projectID))
    IN {[err |-> "nil", len |-> n]} \cup [err : {"failed to list tasks"}, len : 0 .. n]

\* The struct Handlers.CreateTask builds from the URL and the form.
NewTask(projectID, form) ==
    [ProjectID |-> projectID, Description |-> form.description,
     Notes |-> form.notes, Priority |-> form.priority,
     Completed |-> FALSE, CompletedAt |-> NULL, SortOrder |-> 0]

\* Where Handlers.CreateTask stands after its listing: answered with 400 when
\* Validate fails, else about to call store.CreateTask with
\* task.SortOrder = len(tasks) + 1.
CreateTaskRequest(projectID, form, listing) ==
    IF TaskValidate(NewTask(projectID, form)) # "nil" THEN Responded(400)
    ELSE [pc |-> "Handlers.CreateTask",
          listErr |-> listing.err,
          task |-> [NewTask(projectID, form) EXCEPT !.SortOrder = listing.len + 1]]

\* Handlers.CreateTask up to store.ListTasksByProject.
HandlersCreateTaskList(c, projectID, form, listing) ==
    /\ calls[c].pc = "idle"
    /\ calls' = [calls EXCEPT ![c] = CreateTaskRequest(projectID, form, listing)]
    /\ UNCHANGED <<projects, tasks, nextProjectID, nextTaskID, today>>
    /\ UNCHANGED startupVars

\* Handlers.CreateTask, store.CreateTask: its INSERT; 500 when that fails.
HandlersCreateTaskCreate(c) ==
    /\ calls[c].pc = "Handlers.CreateTask"
    /\ tasks' = CreateTaskRows(calls[c].task)
    /\ IF ForeignKeyOK(calls[c].task.ProjectID)
       THEN /\ nextTaskID' = nextTaskID + 1
            /\ calls' = [calls EXCEPT ![c] =
                            [Idle EXCEPT !.pc = "CreateTask_select", !.id = nextTaskID]]
       ELSE /\ nextTaskID' = nextTaskID
            /\ calls' = [calls EXCEPT ![c] =
                            respondError(500, CreateTaskError(calls[c].task.ProjectID))]
    /\ UNCHANGED <<projects, nextProjectID, today>>
    /\ UNCHANGED startupVars

\* Handlers.UpdateTask, store.GetTask: 404 on any error.
HandlersUpdateTaskGet(c, id, ok) ==
    /\ calls[c].pc = "idle"
    /\ LET got == GetTask(tasks, id, ok)
       IN calls' = [calls EXCEPT ![c] =
                       IF got.err # "nil" THEN Responded(404)
                       ELSE [pc |-> "Handlers.UpdateTask", id |-> id, task |-> got.row]]
    /\ UNCHANGED <<projects, tasks, nextProjectID, nextTaskID, today>>
    /\ UNCHANGED startupVars

\* The struct Handlers.UpdateTask hands to Validate and to the store.
UpdatedTask(id, read, form) ==
    [ID |-> id,
     ProjectID |-> read.project_id,
     Description |-> form.description,
     Notes |-> form.notes,
     Priority |-> form.priority,
     Completed |-> form.completed = "true",
     CompletedAt |-> read.completed_at,
     SortOrder |-> read.sort_order]

\* Where Handlers.UpdateTask stands after GetTask and the form: answered with
\* 400 when Validate fails, else in store.UpdateTask after its SELECT, or
\* answered with 500 when that finds no row.
UpdateTaskRequest(c, form) ==
    LET id == calls[c].id
        task == UpdatedTask(id, calls[c].task, form)
    IN IF TaskValidate(task) # "nil" THEN Responded(400)
       ELSE IF UpdateTaskSelectError(tasks, id, TRUE) # "nil"
       THEN respondError(500, UpdateTaskSelectError(tasks, id, TRUE))
       ELSE [pc |-> "Handlers.UpdateTask_update",
             id |-> id,
             wasCompleted |-> tasks[id].completed,
             existingCompletedAt |-> tasks[id].completed_at,
             task |-> task]

\* Handlers.UpdateTask after GetTask, up to the SELECT of store.UpdateTask.
HandlersUpdateTaskSelect(c, form) ==
    /\ calls[c].pc = "Handlers.UpdateTask"
    /\ calls' = [calls EXCEPT ![c] = UpdateTaskRequest(c, form)]
    /\ UNCHANGED <<projects, tasks, nextProjectID, nextTaskID, today>>
    /\ UNCHANGED startupVars

\* Handlers.UpdateTask, store.UpdateTask: its UPDATE.
HandlersUpdateTaskExec(c) ==
    /\ calls[c].pc = "Handlers.UpdateTask_update"
    /\ tasks' = UpdateTaskRows(c, calls[c].task)
    /\ calls' = [calls EXCEPT ![c] = Idle]
    /\ UNCHANGED <<projects, nextProjectID, nextTaskID, today>>
    /\ UNCHANGED startupVars

\* Handlers.CompleteProject / ReopenProject / ToggleTask: one store call each.
HandlersCompleteProject(id) ==
    /\ projects' = MarkProjectCompleteRows(id)
    /\ UNCHANGED <<tasks, nextProjectID, nextTaskID, today, calls>>
    /\ UNCHANGED startupVars

HandlersReopenProject(id) ==
    /\ projects' = MarkProjectIncompleteRows(id)
    /\ UNCHANGED <<tasks, nextProjectID, nextTaskID, today, calls>>
    /\ UNCHANGED startupVars

HandlersToggleTask(id) ==
    /\ tasks' = ToggleTaskCompleteRows(id)
    /\ UNCHANGED <<projects, nextProjectID, nextTaskID, today, calls>>
    /\ UNCHANGED startupVars

\* Handlers.ReorderProjects / ReorderTasks: the ids of the JSON payload go to
\* the store's transaction, of which n statements ran.
HandlersReorderProjects(ids, n, committed) ==
    /\ n \in 0..Len(ids)
    /\ committed => n = Len(ids)
    /\ projects' = ReorderProjectsRows(ids, n, committed)
    /\ UNCHANGED <<tasks, nextProjectID, nextTaskID, today, calls>>
    /\ UNCHANGED startupVars

HandlersReorderTasks(projectID, ids, n, committed) ==
    /\ n \in 0..Len(ids)
    /\ committed => n = Len(ids)
    /\ tasks' = ReorderTasksRows(projectID, ids, n, committed)
    /\ UNCHANGED <<projects, nextProjectID, nextTaskID, today, calls>>
    /\ UNCHANGED startupVars

\* The tasks Home asks for per project on the active tab.
HomeTaskLimit == 3

\* Handlers.Home on the default tab ("active"): the projects it shows, those
\* of ListProjects that are not completed, in that order.
HomeActiveProjects ==
    {SelectSeq(listed, LAMBDA id : ~projects[id].completed) : listed \in ListProjects(projects)}

\* HomeActiveTasks listing the project's tasks whatever their completion.
HomeActiveTasksUnfiltered(projectID) ==
    ListTasksByProjectLimited(tasks, projectID, HomeTaskLimit)

\* The task lists Home can attach to a project it shows on the active tab:
\* ListTasksByProjectFiltered(ctx, id, false, 3).
HomeActiveTasks(projectID) ==
    ListTasksByProjectFiltered(tasks, projectID, FALSE, HomeTaskLimit)

\* --------------------------------------------------------- specifications
\* The caller whose multi-statement calls Spec follows statement by statement.
Caller == CHOOSE c \in Clients : TRUE

\* Spec: rows and their order. Every operation that inserts, deletes or orders
\* rows, with the completion inputs at their zero values. One caller's
\* multi-statement calls are interleaved with the single-statement operations
\* and transactions of all others.
Next ==
    \/ \E so \in SortOrders :
           nextProjectID <= MaxProjects /\ CreateProjectInsert(Caller, so)
    \/ CreateProjectSelect(Caller)
    \/ \E id \in ProjectIDs, so \in UpdateSortOrders : UpdateProject(id, FALSE, NULL, so)
    \/ \E id \in ProjectIDs : DeleteProject(id)
    \/ \E ids \in ProjectIDLists : ReorderProjects(ids, Len(ids), TRUE)
    \/ \E ids \in FailedIDLists : \E n \in 0..Len(ids) : ReorderProjects(ids, n, FALSE)
    \/ \E p \in ProjectIDs, so \in SortOrders :
           nextTaskID <= MaxTasks /\ CreateTaskInsert(Caller, p, FALSE, NULL, so)
    \/ CreateTaskSelect(Caller)
    \/ \E id \in TaskIDs : UpdateTaskSelect(Caller, id)
    \/ \E so \in UpdateSortOrders : UpdateTaskExec(Caller, FALSE, NULL, so)
    \/ \E id \in TaskIDs : DeleteTask(id)
    \/ \E p \in ProjectIDs, ids \in TaskIDLists : ReorderTasks(p, ids, Len(ids), TRUE)
    \/ \E p \in ProjectIDs, ids \in FailedIDLists : \E n \in 0..Len(ids) : ReorderTasks(p, ids, n, FALSE)

Spec == Init /\ [][Next]_vars

\* SpecCreate: concurrent creates with no explicit sort_order, and nothing else.
NextCreate ==
    \/ \E c \in Clients, so \in AutoSortOrders :
           nextProjectID <= MaxProjects /\ CreateProjectInsert(c, so)
    \/ \E c \in Clients : CreateProjectSelect(c)
    \/ \E c \in Clients, p \in ProjectIDs, so \in AutoSortOrders :
           nextTaskID <= MaxTasks /\ CreateTaskInsert(c, p, FALSE, NULL, so)
    \/ \E c \in Clients : CreateTaskSelect(c)

SpecCreate == Init /\ [][NextCreate]_vars

\* The callers whose calls SpecDone interleaves.
Racers == {c \in Clients : c # Caller}

\* SpecDone: completion. Creates, updates and toggles of tasks with every
\* completion input, by concurrent callers, as the days pass.
NextDone ==
    \/ \E c \in Racers :
           nextProjectID <= MaxProjects /\ CreateProjectInsert(c, 0)
    \/ \E c \in Racers : CreateProjectSelect(c)
    \/ \E c \in Racers, p \in ProjectIDs, completed \in BOOLEAN, completedAt \in NullableDays :
           nextTaskID <= MaxRaceTasks /\ CreateTaskInsert(c, p, completed, completedAt, 0)
    \/ \E c \in Racers : CreateTaskSelect(c)
    \/ \E c \in Racers, id \in TaskIDs : UpdateTaskSelect(c, id)
    \/ \E c \in Racers, completed \in BOOLEAN, completedAt \in NullableDays, so \in UpdateSortOrders :
           UpdateTaskExec(c, completed, completedAt, so)
    \/ \E id \in TaskIDs : ToggleTaskComplete(id)
    \/ Tick

SpecDone == Init /\ [][NextDone]_vars

\* SpecToggle: the single-statement completion calls. Rows are created
\* incomplete, so that completed rows come from ToggleTaskComplete and
\* MarkProjectComplete alone.
NextToggle ==
    \/ nextProjectID <= MaxProjects /\ CreateProjectInsert(Caller, 0)
    \/ CreateProjectSelect(Caller)
    \/ \E p \in ProjectIDs :
           nextTaskID <= MaxRaceTasks /\ CreateTaskInsert(Caller, p, FALSE, NULL, 0)
    \/ CreateTaskSelect(Caller)
    \/ \E id \in TaskIDs : ToggleTaskComplete(id)
    \/ \E id \in ProjectIDs : MarkProjectComplete(id)
    \/ \E id \in ProjectIDs : MarkProjectIncomplete(id)
    \/ Tick

SpecToggle == Init /\ [][NextToggle]_vars

\* SpecDates: a due date from CreateTask to GetTask, and GetTask on the texts
\* of a legacy database. written is the date CreateTask was given.
InitDates ==
    /\ projects = <<>>
    /\ tasks = <<>>
    /\ nextProjectID = 1
    /\ nextTaskID = 1
    /\ today = 1
    /\ Migrated
    /\ \/ \E date \in NullableDays :
              calls = [c \in Clients |->
                          IF c = Caller THEN [pc |-> "CreateTask", written |-> date] ELSE Idle]
       \/ \E text \in LegacyTexts :
              calls = [c \in Clients |->
                          IF c = Caller
                          THEN [pc |-> "GetTask", writer |-> "legacy", written |-> NULL,
                                stored |-> SqlText(text)]
                          ELSE Idle]

NextDates ==
    \/ WriteDueDate(Caller)
    \/ ReadDueDate(Caller)

SpecDates == InitDates /\ [][NextDates]_vars

\* SpecHome: the tables the home page reads. Projects, one task more than the
\* page shows per project, and the calls that complete projects and tasks.
NextHome ==
    \/ nextProjectID <= MaxProjects /\ CreateProjectInsert(Caller, 0)
    \/ CreateProjectSelect(Caller)
    \/ \E p \in ProjectIDs, so \in SortOrders :
           nextTaskID <= HomeTaskLimit + 1 /\ CreateTaskInsert(Caller, p, FALSE, NULL, so)
    \/ CreateTaskSelect(Caller)
    \/ \E id \in 1 .. HomeTaskLimit + 1 : ToggleTaskComplete(id)
    \/ \E id \in ProjectIDs : MarkProjectComplete(id)
    \/ \E id \in ProjectIDs : MarkProjectIncomplete(id)

SpecHome == Init /\ [][NextHome]_vars

\* Every operation that writes completed or completed_at, of projects and of
\* tasks, with UpdateTask's two statements of racing callers interleaved with
\* the others; the tasks are those of the first project.
NextCompleted ==
    \/ nextProjectID <= MaxProjects /\ CreateProjectInsert(Caller, 0)
    \/ CreateProjectSelect(Caller)
    \/ \E id \in ProjectIDs, completed \in BOOLEAN, completedAt \in NullableDays :
           UpdateProject(id, completed, completedAt, 0)
    \/ \E id \in ProjectIDs : MarkProjectComplete(id)
    \/ \E id \in ProjectIDs : MarkProjectIncomplete(id)
    \/ \E completed \in BOOLEAN, completedAt \in NullableDays :
           nextTaskID <= MaxRaceTasks /\ CreateTaskInsert(Caller, 1, completed, completedAt, 0)
    \/ CreateTaskSelect(Caller)
    \/ \E c \in Racers, id \in TaskIDs : UpdateTaskSelect(c, id)
    \/ \E c \in Racers, completed \in BOOLEAN, completedAt \in NullableDays :
           UpdateTaskExec(c, completed, completedAt, 0)
    \/ \E id \in TaskIDs : ToggleTaskComplete(id)
    \/ Tick

SpecCompleted == Init /\ [][NextCompleted]_vars

\* SpecLists: the tables the listings read. Tasks created with every position
\* and completion input and toggled as the days pass.
NextLists ==
    \/ nextProjectID <= MaxProjects /\ CreateProjectInsert(Caller, 0)
    \/ CreateProjectSelect(Caller)
    \/ \E p \in ProjectIDs, completed \in BOOLEAN, completedAt \in NullableDays, so \in SortOrders :
           nextTaskID <= MaxTasks /\ CreateTaskInsert(Caller, p, completed, completedAt, so)
    \/ CreateTaskSelect(Caller)
    \/ \E id \in TaskIDs : ToggleTaskComplete(id)
    \/ Tick

SpecLists == Init /\ [][NextLists]_vars

\* SpecValidate: Validate on every Project and Task struct of the bounded sets.
InitValidate ==
    /\ projects = <<>>
    /\ tasks = <<>>
    /\ nextProjectID = 1
    /\ nextTaskID = 1
    /\ today = 1
    /\ Migrated
    /\ \/ \E p \in ProjectStructs :
              calls = [c \in Clients |->
                          IF c = Caller THEN [pc |-> "Project.Validate", project |-> p] ELSE Idle]
       \/ \E t \in TaskStructs :
              calls = [c \in Clients |->
                          IF c = Caller THEN [pc |-> "Task.Validate", task |-> t] ELSE Idle]

NextValidate ==
    \/ ValidateProject(Caller)
    \/ ValidateTask(Caller)

SpecValidate == InitValidate /\ [][NextValidate]_vars

\* SpecHttp: the requests that create and update projects and tasks, with
\* every form, one after the other, among deletes by other requests.
NextHttp ==
    \/ \E form \in ProjectForms :
           nextProjectID <= MaxProjects /\ HandlersCreateProject(Caller, form)
    \/ CreateProjectSelect(Caller)
    \/ \E id \in ProjectIDs, ok \in BOOLEAN : HandlersUpdateProjectGet(Caller, id, ok)
    \/ \E form \in ProjectForms : HandlersUpdateProjectStore(Caller, form)
    \/ \E id \in ProjectIDs : DeleteProject(id)
    \/ \E p \in URLProjectIDs, form \in TaskForms :
           \E listing \in Listings(p) :
               nextTaskID <= MaxRaceTasks /\ HandlersCreateTaskList(Caller, p, form, listing)
    \/ HandlersCreateTaskCreate(Caller)
    \/ CreateTaskSelect(Caller)
    \/ \E id \in TaskIDs, ok \in BOOLEAN : HandlersUpdateTaskGet(Caller, id, ok)
    \/ \E form \in TaskForms : HandlersUpdateTaskSelect(Caller, form)
    \/ HandlersUpdateTaskExec(Caller)
    \/ \E id \in TaskIDs : DeleteTask(id)

SpecHttp == Init /\ [][NextHttp]_vars

\* SpecHttpTasks: the task-creation requests of concurrent clients, between
\* project creations and task deletions, as long as there are ids to give.
\* The forms leave out the fields that Handlers.CreateTask does not read and
\* the target dates, which no task request reads.
NextHttpTasks ==
    \/ \E form \in {f \in ProjectForms : f.target_date = ""} :
           nextProjectID <= MaxProjects /\ HandlersCreateProject(Caller, form)
    \/ CreateProjectSelect(Caller)
    \/ \E c \in Racers, p \in URLProjectIDs, form \in {f \in TaskForms : f.completed = ""} :
           \E listing \in Listings(p) :
               nextTaskID <= MaxTasks /\ HandlersCreateTaskList(c, p, form, listing)
    \/ \E c \in Racers : HandlersCreateTaskCreate(c)
    \/ \E c \in Racers : CreateTaskSelect(c)
    \/ \E id \in TaskIDs : DeleteTask(id)

SpecHttpTasks == Init /\ [][NextHttpTasks]_vars

\* SpecHttpDays: the requests that write rows, as the days pass. One form per
\* request stands for those Validate accepts, the drag-and-drop reorders send
\* the ids of the rows shown, each once, and of the two update requests, which
\* stamp their row alike, the project's is followed.
DayProjectForms == {f \in ProjectForms : f.target_date = "" /\ f.name = <<"a">> /\ f.type = "category"}
DayTaskForms == {f \in TaskForms : TaskValidate(NewTask(1, f)) = "nil" /\ f.completed = ""}
ShownLists(lists, shown) == {ids \in lists : Len(ids) = Cardinality(shown) /\ Range(ids) = shown}

NextHttpDays ==
    \/ \E form \in DayProjectForms :
           nextProjectID <= MaxProjects /\ HandlersCreateProject(Caller, form)
    \/ CreateProjectSelect(Caller)
    \/ \E id \in ProjectIDs : HandlersUpdateProjectGet(Caller, id, TRUE)
    \/ \E form \in DayProjectForms : HandlersUpdateProjectStore(Caller, form)
    \/ \E id \in ProjectIDs : HandlersCompleteProject(id)
    \/ \E id \in ProjectIDs : HandlersReopenProject(id)
    \/ \E ids \in ShownLists(ProjectIDLists, DOMAIN projects) :
           HandlersReorderProjects(ids, Len(ids), TRUE)
    \/ \E p \in ProjectIDs, form \in DayTaskForms :
           \E listing \in Listings(p) :
               nextTaskID <= MaxRaceTasks /\ HandlersCreateTaskList(Caller, p, form, listing)
    \/ HandlersCreateTaskCreate(Caller)
    \/ CreateTaskSelect(Caller)
    \/ \E id \in TaskIDs : HandlersToggleTask(id)
    \/ \E p \in ProjectIDs :
           \E ids \in ShownLists(TaskIDLists, TasksOf(tasks, p)) :
               HandlersReorderTasks(p, ids, Len(ids), TRUE)
    \/ Tick

SpecHttpDays == Init /\ [][NextHttpDays]_vars

\* The update requests of projects and of tasks, each a read followed by a
\* write, with the requests that reorder rows or complete a project arriving
\* at any point between the two.
NextHttpEdit ==
    \/ \E form \in DayProjectForms :
           nextProjectID <= MaxProjects /\ HandlersCreateProject(Caller, form)
    \/ CreateProjectSelect(Caller)
    \/ \E id \in ProjectIDs : HandlersUpdateProjectGet(Caller, id, TRUE)
    \/ \E form \in DayProjectForms : HandlersUpdateProjectStore(Caller, form)
    \/ \E id \in ProjectIDs : HandlersCompleteProject(id)
    \/ \E ids \in ShownLists(ProjectIDLists, DOMAIN projects) :
           HandlersReorderProjects(ids, Len(ids), TRUE)
    \/ \E form \in DayTaskForms :
           \E listing \in Listings(1) :
               nextTaskID <= MaxRaceTasks /\ HandlersCreateTaskList(Caller, 1, form, listing)
    \/ HandlersCreateTaskCreate(Caller)
    \/ CreateTaskSelect(Caller)
    \/ \E id \in TaskIDs : HandlersUpdateTaskGet(Caller, id, TRUE)
    \/ \E form \in DayTaskForms : HandlersUpdateTaskSelect(Caller, form)
    \/ HandlersUpdateTaskExec(Caller)
    \/ \E ids \in ShownLists(TaskIDLists, TasksOf(tasks, 1)) :
           HandlersReorderTasks(1, ids, Len(ids), TRUE)

SpecHttpEdit == Init /\ [][NextHttpEdit]_vars

\* ------------------------------------------------- the origin check
\* Header values and hosts are texts cut into the parts url.Parse tells
\* apart: scheme with "://", authority, path. Origin: null is what a browser
\* sends for an opaque origin.
Methods == {"GET", "HEAD", "OPTIONS", "POST", "PUT", "DELETE", "PATCH"}
HeaderValues ==
    { <<>>,
      <<"http://", "tasks.test">>,
      <<"http://", "TASKS.TEST", "/projects/1">>,
      <<"http://", "evil.test">>,
      <<"http://", "[::1">>,
      <<"null">> }
RequestHosts == {"tasks.test", "Tasks.Test"}

\* url.Parse(raw): the authority after the scheme is Host, a text without
\* scheme has none, and a bracket that is not closed is an error.
urlParse(raw) ==
    IF Len(raw) >= 2 /\ raw[1] = "http://"
    THEN IF raw[2] = "[::1" THEN [err |-> "missing ']' in host", Host |-> ""]
         ELSE [err |-> "nil", Host |-> raw[2]]
    ELSE [err |-> "nil", Host |-> ""]

\* strings.EqualFold by way of the lower-case form of the hosts above.
ToLower(str) ==
    CASE str = "TASKS.TEST" -> "tasks.test"
      [] str = "Tasks.Test" -> "tasks.test"
      [] OTHER -> str
sameHost(a, b) == ToLower(a) = ToLower(b)

\* csrfOriginCheck without the check of the Referer header.
csrfOriginCheckOriginOnly(r) ==
    IF r.Method \in {"GET", "HEAD", "OPTIONS"} THEN "next"
    ELSE IF r.Origin = <<>> /\ r.Referer = <<>> THEN "forbidden"
    ELSE IF /\ r.Origin # <<>>
            /\ (urlParse(r.Origin).err # "nil" \/ ~sameHost(urlParse(r.Origin).Host, r.Host))
    THEN "forbidden"
    ELSE "next"

\* csrfOriginCheck: what the middleware does with request r, next.ServeHTTP
\* or http.Error(w, "forbidden", 403). Header.Get gives "" for a header that
\* was not sent.
csrfOriginCheck(r) ==
    IF r.Method \in {"GET", "HEAD", "OPTIONS"} THEN "next"
    ELSE IF r.Origin = <<>> /\ r.Referer = <<>> THEN "forbidden"
    ELSE IF /\ r.Origin # <<>>
            /\ (urlParse(r.Origin).err # "nil" \/ ~sameHost(urlParse(r.Origin).Host, r.Host))
    THEN "forbidden"
    ELSE IF /\ r.Referer # <<>>
            /\ (urlParse(r.Referer).err # "nil" \/ ~sameHost(urlParse(r.Referer).Host, r.Host))
    THEN "forbidden"
    ELSE "next"

\* A request arrives at the router, whose middleware runs before any route.
ReceiveRequest(c, method, origin, referer, host, id) ==
    /\ calls[c].pc = "idle"
    /\ method = "POST" => nextProjectID <= MaxProjects
    /\ calls' = [calls EXCEPT ![c] =
                    [pc |-> "csrfOriginCheck", Method |-> method, Origin |-> origin,
                     Referer |-> referer, Host |-> host, id |-> id]]
    /\ UNCHANGED <<projects, tasks, nextProjectID, nextTaskID, today>>
    /\ UNCHANGED startupVars

\* The middleware's decision on the request.
CsrfOriginCheck(c) ==
    /\ calls[c].pc = "csrfOriginCheck"
    /\ calls' = [calls EXCEPT ![c] =
                    IF csrfOriginCheck(calls[c]) = "next"
                    THEN [calls[c] EXCEPT !.pc = "next.ServeHTTP"]
                    ELSE respondError(403, "forbidden")]
    /\ UNCHANGED <<projects, tasks, nextProjectID, nextTaskID, today>>
    /\ UNCHANGED startupVars

\* next.ServeHTTP: the route of the method. GET / reads; POST /api/projects
\* is Handlers.CreateProject up to its INSERT; PUT /api/projects/{id} is
\* Handlers.UpdateProject up to GetProject; DELETE /api/projects/{id} is
\* Handlers.DeleteProject; a method without route is answered 405.
ServeHTTP(c, form) ==
    /\ calls[c].pc = "next.ServeHTTP"
    /\ LET r == calls[c]
           created == CreateProjectRequest(form)
           got == GetProject(projects, r.id, TRUE)
           deleted == TablesAfterDeleteProject(r.id)
       IN CASE r.Method = "POST" ->
                   /\ projects' = created.projects
                   /\ nextProjectID' = nextProjectID + 1
                   /\ calls' = [calls EXCEPT ![c] =
                                   [Idle EXCEPT !.pc = "CreateProject_select",
                                                !.id = nextProjectID]]
                   /\ UNCHANGED tasks
            [] r.Method = "PUT" ->
                   /\ calls' = [calls EXCEPT ![c] =
                                   IF got.err # "nil" THEN Responded(404)
                                   ELSE [pc |-> "Handlers.UpdateProject", id |-> r.id,
                                         project |-> got.row]]
                   /\ UNCHANGED <<projects, tasks, nextProjectID>>
            [] r.Method = "DELETE" ->
                   /\ projects' = deleted.projects
                   /\ tasks' = deleted.tasks
                   /\ calls' = [calls EXCEPT ![c] = Responded(200)]
                   /\ UNCHANGED nextProjectID
            [] r.Method = "GET" ->
                   /\ calls' = [calls EXCEPT ![c] = Responded(200)]
                   /\ UNCHANGED <<projects, tasks, nextProjectID>>
            [] OTHER ->
                   /\ calls' = [calls EXCEPT ![c] = Responded(405)]
                   /\ UNCHANGED <<projects, tasks, nextProjectID>>
    /\ UNCHANGED <<nextTaskID, today>>
    /\ UNCHANGED startupVars

\* SpecCsrf: requests of every method with every pair of Origin and Referer
\* values, through the middleware to the project routes.
NextCsrf ==
    \/ \E method \in Methods, origin \in HeaderValues, referer \in HeaderValues,
          host \in RequestHosts, id \in ProjectIDs :
           ReceiveRequest(Caller, method, origin, referer, host, id)
    \/ CsrfOriginCheck(Caller)
    \/ \E form \in DayProjectForms : ServeHTTP(Caller, form)
    \/ CreateProjectSelect(Caller)
    \/ \E form \in DayProjectForms : HandlersUpdateProjectStore(Caller, form)

SpecCsrf == Init /\ [][NextCsrf]_vars

\* ------------------------------------------------------------------ claims

NoDuplicates(ids) == \A i, j \in DOMAIN ids : i # j => ids[i] # ids[j]

SortOrdersOf(rows, ids) == {rows[i].sort_order : i \in ids}

\* Every listing of the rows ids ends with id.
ListedLast(rows, ids, id) == \A s \in Ordered(rows, ids) : s[Len(s)] = id

\* C1: in every reachable state, a CreateProject / CreateTask whose caller
\* supplies SortOrder <= 0 stores sort_order 1 when the new row has no sibling
\* and (the largest sort_order of its siblings) + 1 otherwise, so that every
\* listing by sort_order ends with the new row. Siblings are all projects for
\* a project, the tasks of the same project for a task.
C1_CreateAppendsAfterSiblings ==
    \A so \in AutoSortOrders :
        /\ LET after == ProjectsAfterCreate(so)
               new == after[nextProjectID].sort_order
           IN /\ DOMAIN projects = {} => new = 1
              /\ DOMAIN projects # {} => new = Max(SortOrdersOf(projects, DOMAIN projects)) + 1
              /\ \A p \in DOMAIN projects : new > projects[p].sort_order
              /\ ListedLast(after, DOMAIN after, nextProjectID)
        /\ \A p \in DOMAIN projects :
               LET after == TasksAfterCreate(p, FALSE, NULL, so)
                   new == after[nextTaskID].sort_order
                   siblings == TasksOf(tasks, p)
               IN /\ siblings = {} => new = 1
                  /\ siblings # {} => new = Max(SortOrdersOf(tasks, siblings)) + 1
                  /\ \A t \in siblings : new > tasks[t].sort_order
                  /\ ListedLast(after, TasksOf(after, p), nextTaskID)

\* C1's case: after a delete, a CreateTask with no sort_order has inserted a
\* task behind a sibling whose sort_order is not the number of siblings.
C1_Witness ==
    \E c \in Clients :
        /\ calls[c].pc = "CreateTask_select"
        /\ calls[c].id \in DOMAIN tasks
        /\ \E t \in 1..(nextTaskID - 1) : t \notin DOMAIN tasks
        /\ LET new == calls[c].id
               siblings == TasksOf(tasks, tasks[new].project_id) \ {new}
           IN /\ siblings # {}
              /\ tasks[new].sort_order = Max(SortOrdersOf(tasks, siblings)) + 1
              /\ tasks[new].sort_order > Cardinality(siblings) + 1

\* C2: when callers create tasks concurrently, none with an explicit
\* sort_order, the tasks of one project have pairwise distinct sort_order values
\* that increase strictly in the order their INSERTs took effect (the order of
\* their ids).
C2_ConcurrentCreatesDistinct ==
    \A t, u \in DOMAIN tasks :
        (t < u /\ tasks[t].project_id = tasks[u].project_id)
            => tasks[t].sort_order < tasks[u].sort_order

\* C2's case: every caller is inside a CreateTask on the same project, each
\* INSERT done and no call returned yet.
C2_Witness ==
    /\ \A c \in Clients : calls[c].pc = "CreateTask_select" /\ calls[c].id \in DOMAIN tasks
    /\ \A c, d \in Clients :
           /\ tasks[calls[c].id].project_id = tasks[calls[d].id].project_id
           /\ c # d => calls[c].id # calls[d].id

\* C3: in every reachable state, a committed ReorderProjects(ids) or
\* ReorderTasks(projectID, ids) whose ids are distinct ids of existing siblings
\* leaves every listed row with sort_order = its 1-based position in ids; when
\* ids names every sibling, the sort_order values are exactly 1..N and the
\* listing by sort_order is ids.
C3_ReorderAssignsPositions ==
    /\ \A ids \in ProjectIDLists :
           (NoDuplicates(ids) /\ Range(ids) \subseteq DOMAIN projects) =>
               LET after == ProjectsAfterReorder(ids, Len(ids), TRUE)
               IN /\ \A i \in DOMAIN ids : after[ids[i]].sort_order = i
                  /\ Range(ids) = DOMAIN projects =>
                         /\ SortOrdersOf(after, DOMAIN after) = 1..Len(ids)
                         /\ ListProjects(after) = {ids}
    /\ \A p \in ProjectIDs, ids \in TaskIDLists :
           (NoDuplicates(ids) /\ Range(ids) \subseteq TasksOf(tasks, p)) =>
               LET after == TablesAfterReorderTasks(p, ids, Len(ids), TRUE).tasks
               IN /\ \A i \in DOMAIN ids : after[ids[i]].sort_order = i
                  /\ Range(ids) = TasksOf(tasks, p) =>
                         /\ SortOrdersOf(after, TasksOf(after, p)) = 1..Len(ids)
                         /\ ListTasksByProject(after, p) = {ids}

\* C3's case: the tasks 1, 2, 3 of one project, created in that order, are
\* listed 3, 1, 2 (created A, B, C, then reordered to C, A, B).
C3_Witness ==
    /\ DOMAIN tasks = {1, 2, 3}
    /\ \E p \in DOMAIN projects :
           /\ TasksOf(tasks, p) = {1, 2, 3}
           /\ ListTasksByProject(tasks, p) = {<<3, 1, 2>>}
    /\ tasks[3].sort_order = 1 /\ tasks[1].sort_order = 2 /\ tasks[2].sort_order = 3

\* C4: in every reachable state, a ReorderProjects / ReorderTasks that fails
\* (at begin or prepare, at any statement of its loop, or at commit) leaves
\* every row of both tables as it was before the call.
C4_FailedReorderChangesNothing ==
    /\ \A ids \in ProjectIDLists : \A n \in 0..Len(ids) :
           ProjectsAfterReorder(ids, n, FALSE) = projects
    /\ \A p \in ProjectIDs, ids \in TaskIDLists : \A n \in 0..Len(ids) :
           LET after == TablesAfterReorderTasks(p, ids, n, FALSE)
           IN after.tasks = tasks /\ after.projects = projects

\* C4's case: a state in which a reorder that fails after its first statement,
\* with more to come, has already written a sort_order inside its transaction.
C4_Witness ==
    \E p \in DOMAIN projects, ids \in TaskIDLists :
        /\ Len(ids) > 1
        /\ ReorderTaskRows(tasks, p, ids, 1) # tasks
        /\ ReorderTaskRows(tasks, p, ids, 1) # ReorderTaskRows(tasks, p, ids, Len(ids))

\* The position the last occurrence of id has in ids.
LastIndex(ids, id) == Max({i \in DOMAIN ids : ids[i] = id})

\* C5: in every reachable state, a committed reorder with any id list at all
\* creates and deletes no row, leaves a sibling that is not listed with its
\* sort_order, skips an id that matches no row, and leaves a sibling listed
\* several times with sort_order = the position of its last occurrence.
C5_ReorderIsLenient ==
    /\ \A ids \in ProjectIDLists :
           LET after == ProjectsAfterReorder(ids, Len(ids), TRUE)
           IN /\ DOMAIN after = DOMAIN projects
              /\ \A p \in DOMAIN projects :
                     after[p].sort_order =
                         IF p \in Range(ids) THEN LastIndex(ids, p) ELSE projects[p].sort_order
    /\ \A p \in ProjectIDs, ids \in TaskIDLists :
           LET after == TablesAfterReorderTasks(p, ids, Len(ids), TRUE).tasks
           IN /\ DOMAIN after = DOMAIN tasks
              /\ \A t \in TasksOf(tasks, p) :
                     after[t].sort_order =
                         IF t \in Range(ids) THEN LastIndex(ids, t) ELSE tasks[t].sort_order

\* C5's case: only the tasks 1 and 2 were ever created, both in one project,
\* and task 1 stands at position 3 behind task 2 at position 2: a reorder
\* whose list of three named task 1 twice or named an id without a row.
C5_Witness ==
    /\ nextTaskID = 3
    /\ DOMAIN tasks = {1, 2}
    /\ tasks[1].project_id = tasks[2].project_id
    /\ tasks[1].sort_order = 3
    /\ tasks[2].sort_order = 2

\* C6: in every reachable state, a committed ReorderTasks(projectID, ids)
\* changes nothing but the sort_order of tasks whose project_id is
\* projectID: the tasks of other projects, also those named in ids, and all
\* project rows keep every field.
C6_ReorderTasksScoped ==
    \A p \in ProjectIDs, ids \in TaskIDLists :
        LET after == TablesAfterReorderTasks(p, ids, Len(ids), TRUE)
        IN /\ after.projects = projects
           /\ DOMAIN after.tasks = DOMAIN tasks
           /\ \A t \in DOMAIN tasks :
                  /\ tasks[t].project_id # p => after.tasks[t] = tasks[t]
                  /\ after.tasks[t] = [tasks[t] EXCEPT !.sort_order = after.tasks[t].sort_order]

\* C6's case: tasks 1 and 2, the only ones created, belong to different
\* projects; task 1 was reordered to position 3 of a list of its project while
\* task 2 still has the sort_order its create gave it.
C6_Witness ==
    /\ nextTaskID = 3
    /\ DOMAIN tasks = {1, 2}
    /\ tasks[1].project_id # tasks[2].project_id
    /\ tasks[1].sort_order = 3
    /\ tasks[2].sort_order = 1

\* C7: in every reachable state, DeleteProject(id) of an existing project
\* removes the project and every task whose project_id is id, so that
\* GetProject(id) and GetTask of each such task fail with not found, and leaves
\* every other project and every task of another project as it was.
C7_DeleteProjectCascades ==
    \A id \in DOMAIN projects :
        LET after == TablesAfterDeleteProject(id)
        IN /\ GetProject(after.projects, id, TRUE) = [err |-> "project not found"]
           /\ \A t \in TasksOf(tasks, id) : GetTask(after.tasks, t, TRUE) = [err |-> "task not found"]
           /\ \A p \in DOMAIN projects \ {id} :
                  GetProject(after.projects, p, TRUE) = [row |-> projects[p], err |-> "nil"]
           /\ \A t \in DOMAIN tasks \ TasksOf(tasks, id) :
                  GetTask(after.tasks, t, TRUE) = [row |-> tasks[t], err |-> "nil"]

\* C7's case: project 1 is gone and so is its task 1, while project 2 and its
\* task 2 are stored.
C7_Witness ==
    /\ DOMAIN projects = {2}
    /\ DOMAIN tasks = {2}
    /\ nextTaskID = 3
    /\ tasks[2].project_id = 2

\* C8: in every reachable state each stored task's project_id is the id of a
\* stored project, and a CreateTask whose project_id matches no project
\* stores nothing.
C8_TasksReferenceProjects ==
    /\ \A t \in DOMAIN tasks : tasks[t].project_id \in DOMAIN projects
    /\ \A p \in ProjectIDs \ DOMAIN projects, so \in SortOrders :
           TasksAfterCreate(p, FALSE, NULL, so) = tasks

\* C8's case: a project that had tasks has been deleted, another project and
\* a task of it are stored, and further task ids are free.
C8_Witness ==
    /\ \E p \in 1..(nextProjectID - 1) : p \notin DOMAIN projects
    /\ \E t \in 1..(nextTaskID - 1) : t \notin DOMAIN tasks
    /\ DOMAIN tasks # {}
    /\ nextTaskID <= MaxTasks

\* The callers between the SELECT and the UPDATE of an UpdateTask on a task
\* that is still stored.
Updating == {c \in Racers : calls[c].pc = "UpdateTask_update" /\ calls[c].id \in DOMAIN tasks}

\* C9: whenever an UpdateTask is about to write a task that nothing has
\* touched since the call read it, then for every Completed and CompletedAt the
\* caller's struct may carry the completed_at it stores is the stored one if
\* completed keeps its value, today if completed goes from false to true, and
\* NULL if completed goes from true to false.
C9_UpdateTaskPreservesCompletedAt ==
    \A c \in Updating :
        LET id == calls[c].id
        IN (/\ calls[c].wasCompleted = tasks[id].completed
            /\ calls[c].existingCompletedAt = tasks[id].completed_at) =>
               \A completed \in BOOLEAN, completedAt \in NullableDays, so \in UpdateSortOrders :
                   TasksAfterUpdate(c, completed, completedAt, so)[id].completed_at =
                       IF completed = tasks[id].completed THEN tasks[id].completed_at
                       ELSE IF completed THEN {today}
                       ELSE NULL

\* C10: whenever an UpdateTask is about to write, under any interleaving with
\* ToggleTaskComplete and other UpdateTask calls, the completed_at it stores is
\* the one its rule gives for the completed and completed_at the task has
\* immediately before the write.
C10_UpdateTaskAtomicReadModifyWrite ==
    \A c \in Updating :
        LET id == calls[c].id
        IN \A completed \in BOOLEAN, completedAt \in NullableDays, so \in UpdateSortOrders :
               TasksAfterUpdate(c, completed, completedAt, so)[id].completed_at =
                   UpdateCompletedAt(completed, completedAt,
                       tasks[id].completed, tasks[id].completed_at)

\* C11: in every reachable state, ToggleTaskComplete on a stored task flips
\* completed and leaves completed_at = today's date if the task became
\* completed and NULL if it became incomplete; a second toggle of a task that
\* was incomplete leaves it with completed = FALSE and completed_at NULL.
C11_ToggleFlipsAndDates ==
    \A id \in DOMAIN tasks :
        LET once == TasksAfterToggle(tasks, id)
            twice == TasksAfterToggle(once, id)
        IN /\ once[id].completed = ~tasks[id].completed
           /\ once[id].completed_at = IF once[id].completed THEN {today} ELSE NULL
           /\ ~tasks[id].completed =>
                  twice[id].completed = FALSE /\ twice[id].completed_at = NULL

\* C11's case: one task was toggled to completed on an earlier day, another on
\* the current day.
C11_Witness ==
    /\ today = 2
    /\ DOMAIN tasks = {1, 2}
    /\ tasks[1].completed /\ tasks[1].completed_at = {1}
    /\ tasks[2].completed /\ tasks[2].completed_at = {2}

\* C12: in every reachable state, MarkProjectComplete on a stored project
\* leaves completed = TRUE, and completed_at = today's date if the project was
\* not completed and the stored completed_at if it already was.
C12_MarkCompleteKeepsFirstDate ==
    \A id \in DOMAIN projects :
        LET after == ProjectsAfterMarkComplete(projects, id)
        IN /\ after[id].completed = TRUE
           /\ after[id].completed_at =
                  IF projects[id].completed THEN projects[id].completed_at ELSE {today}

\* C13: in every reachable state, MarkProjectIncomplete on a stored project
\* leaves completed = FALSE and completed_at NULL, also when the project was
\* incomplete already, and a second call in a row changes nothing the first
\* has not.
C13_MarkIncompleteIdempotent ==
    \A id \in DOMAIN projects :
        LET once == ProjectsAfterMarkIncomplete(projects, id)
            twice == ProjectsAfterMarkIncomplete(once, id)
        IN /\ once[id].completed = FALSE
           /\ once[id].completed_at = NULL
           /\ twice = once
           /\ (~projects[id].completed /\ projects[id].completed_at = NULL) =>
                  once = projects

\* C13's case: project 1 was completed on an earlier day and is still, so a
\* MarkProjectIncomplete has a date to clear; project 2 is incomplete with
\* completed_at NULL.
C13_Witness ==
    /\ today = 2
    /\ DOMAIN projects = {1, 2}
    /\ projects[1].completed /\ projects[1].completed_at = {1}
    /\ ~projects[2].completed /\ projects[2].completed_at = NULL

\* The .sql files of fs, and the versions of those with a well-formed name.
SqlFiles(fs) == {f \in fs : Ext(f) = ".sql"}
Versions(fs) ==
    {parseMigrationFilename(f).version :
        f \in {g \in SqlFiles(fs) : parseMigrationFilename(g).err = "nil"}}

\* Some file name is malformed, or two files have the same version.
Malformed(fs) == \E f \in SqlFiles(fs) : parseMigrationFilename(f).err # "nil"
Duplicated(fs) ==
    \E f, g \in SqlFiles(fs) :
        /\ f # g
        /\ parseMigrationFilename(f).err = "nil"
        /\ parseMigrationFilename(g).err = "nil"
        /\ parseMigrationFilename(f).version = parseMigrationFilename(g).version

\* C14: in every reachable state the scripts runMigrations has executed in
\* this startup are in strictly ascending version order, in whatever order
\* the files were listed, and when a script has been started every migration
\* of a smaller version is recorded in the ledger.
C14_MigrationsAscending ==
    /\ \A j, k \in DOMAIN boot.ran : j < k => boot.ran[j] < boot.ran[k]
    /\ \A k \in DOMAIN boot.ran :
           \A v \in Versions(files) :
               (v < boot.ran[k] \/ (v = boot.ran[k] /\ k < Len(boot.ran))) => v \in ledger

\* C14's case: the files are listed with version 3 before version 2, and the
\* startup has executed the scripts 1, 2, 3 in this order.
C14_Witness ==
    /\ boot.pc = "done"
    /\ boot.ran = <<1, 2, 3>>
    /\ parseMigrationFilename(ReadDir(files)[2]).version = 3
    /\ parseMigrationFilename(ReadDir(files)[3]).version = 2

\* Every migration of fs is recorded in the ledger.
FullyMigrated(fs) ==
    /\ ~Malformed(fs) /\ ~Duplicated(fs)
    /\ Versions(fs) # {}
    /\ Versions(fs) \subseteq ledger

\* C15: in every step of any number of startups, a script is executed only
\* for a version that is not in the ledger, no version leaves the ledger, and
\* on a database whose ledger has every migration no script is executed and
\* ledger and schema stay as they are.
C15_MigrationsRunOnce ==
    [][/\ Len(boot'.ran) > Len(boot.ran) => boot'.ran[Len(boot'.ran)] \notin ledger
       /\ ledger \subseteq ledger'
       /\ FullyMigrated(files) =>
              /\ ledger' = ledger
              /\ schema' = schema
              /\ Len(boot'.ran) <= Len(boot.ran)]_vars

\* C15's case: the second startup on a database migrated by the first has
\* returned the store without executing a script.
C15_Witness ==
    /\ startups = 2
    /\ boot.pc = "done"
    /\ boot.ran = <<>>
    /\ ledger = {1, 2, 3}
    /\ schema = FullSchema

\* No migration of the files has its schema changes present and its version
\* missing from the ledger.
NoneUnrecorded(sch, led) == \A v \in Versions(files) : Changes(v) \subseteq sch => v \in led

\* C16: every step of runMigrations keeps NoneUnrecorded, and a step of the
\* apply phase either leaves schema, ledger and rows as they were or adds one
\* migration's schema changes together with its ledger row.
C16_ApplyMigrationAtomic ==
    [][/\ NoneUnrecorded(schema, ledger) => NoneUnrecorded(schema', ledger')
       /\ boot.pc = "apply" =>
              \/ /\ schema' = schema /\ ledger' = ledger
                 /\ projects' = projects /\ tasks' = tasks
              \/ \E v \in Versions(files) \ ledger :
                     /\ ledger' = ledger \cup {v}
                     /\ schema' = schema \cup Changes(v)
                     /\ Changes(v) # {} => schema' # schema]_vars

\* C16's case: a startup has failed in applyMigration after the script of a
\* migration had run; neither its columns nor its ledger row are there.
C16_Witness ==
    /\ boot.pc = "failed"
    /\ boot.ran # <<>>
    /\ boot.ran[Len(boot.ran)] \notin ledger
    /\ Changes(boot.ran[Len(boot.ran)]) \cap schema = {}
    /\ ledger # {}

\* C17: whenever bootstrapLegacyMigrations is about to run, it records
\* nothing unless the ledger is empty and both the projects and the tasks
\* table exist, and then exactly the migrations with version <= the baseline
\* (3 with projects.completed and projects.completed_at, else 2 with
\* tasks.completed_at, else 1); and a startup that bootstrapped and returned
\* the store has executed exactly the migrations with a greater version.
C17_BootstrapRecordsBaseline ==
    /\ boot.pc = "bootstrap" =>
           LET baseline ==
                   IF {"projects.completed", "projects.completed_at"} \subseteq schema THEN 3
                   ELSE IF "tasks.completed_at" \in schema THEN 2
                   ELSE 1
               recorded ==
                   LedgerAfterBootstrap(boot.migrations,
                       Len(BaselineMigrations(boot.migrations, BaselineVersion(schema))), TRUE)
           IN recorded =
                  IF ledger = {} /\ {"projects", "tasks"} \subseteq schema
                  THEN {v \in Versions(files) : v <= baseline}
                  ELSE ledger
    /\ (boot.pc = "done" /\ boot.baselineVersion > 0) =>
           Range(boot.ran) = {v \in Versions(files) : v > boot.baselineVersion}

\* C18: on a database that had only the projects and tasks tables of the
\* initial schema, no migration that is due can fail but by a failure of the
\* engine, and once NewSQLiteStore has returned the store the columns of every
\* migration are present, every migration is in the ledger, and the project
\* and the task stored before are stored with the values they had.
C18_LegacyDatabaseMigrated ==
    /\ (/\ boot.pc = "apply"
        /\ boot.i <= Len(boot.migrations)
        /\ boot.migrations[boot.i] \notin boot.applied) =>
           Committed(boot.migrations[boot.i], "none")
    /\ boot.pc = "done" =>
           /\ \A v \in Versions(files) : Changes(v) \subseteq schema /\ v \in ledger
           /\ nextProjectID = 2 =>
                  /\ DOMAIN projects = {1} /\ DOMAIN tasks = {1}
                  /\ \A f \in DOMAIN LegacyProject(Changes(1)) :
                         projects[1][f] = LegacyProject(Changes(1))[f]
                  /\ \A f \in DOMAIN LegacyTask(Changes(1)) :
                         tasks[1][f] = LegacyTask(Changes(1))[f]

\* C18's case: the store is returned for the database with a project and a
\* task; version 1 was bootstrapped and the scripts 2 and 3 were executed.
C18_Witness ==
    /\ boot.pc = "done"
    /\ nextProjectID = 2
    /\ boot.baselineVersion = 1
    /\ boot.ran = <<2, 3>>
    /\ ledger = {1, 2, 3}

\* C19: whenever bootstrapLegacyMigrations is about to run, a failure after
\* any number of its INSERTs or of its commit leaves the ledger empty; and a
\* startup that failed in the bootstrap has an empty ledger and has executed
\* no script.
C19_BootstrapAllOrNothing ==
    /\ (boot.pc = "bootstrap" /\ BootstrapApplies) =>
           \A n \in 0..Len(BaselineMigrations(boot.migrations, BaselineVersion(schema))) :
               LedgerAfterBootstrap(boot.migrations, n, FALSE) = {}
    /\ (boot.pc = "failed" /\ boot.err = "failed to bootstrap legacy migration") =>
           ledger = {} /\ boot.ran = <<>>

\* C19's case: the bootstrap of a database at baseline 3, with three entries
\* to record, has failed.
C19_Witness ==
    /\ boot.pc = "failed"
    /\ boot.err = "failed to bootstrap legacy migration"
    /\ BaselineVersion(schema) = 3
    /\ boot.migrations = <<1, 2, 3>>

\* C20: NewSQLiteStore has returned the store only with an open connection and
\* every migration of the files in the ledger; when it has failed it has an
\* error, the connection is closed, no further migration can be applied and
\* the last script executed is the one of the greatest version; with a
\* malformed file name or a repeated version it neither returns the store nor
\* executes any script.
C20_StartupFailsClosed ==
    /\ boot.pc = "done" =>
           /\ boot.open /\ boot.err = "nil"
           /\ ~Malformed(files) /\ ~Duplicated(files)
           /\ Versions(files) \subseteq ledger
    /\ boot.pc = "failed" =>
           /\ ~boot.open /\ boot.err # "nil"
           /\ \A k \in DOMAIN boot.ran : boot.ran[k] <= boot.ran[Len(boot.ran)]
           /\ ~ENABLED (\E stop \in Stops : applyMigration(stop))
    /\ (Malformed(files) \/ Duplicated(files)) =>
           /\ boot.pc \in {"ensure", "load", "failed"}
           /\ boot.ran = <<>>

\* C20's case: the script of version 2 has failed after version 1 was
\* applied; version 3 is known and has not been executed.
C20_Witness ==
    /\ boot.pc = "failed"
    /\ boot.ran = <<1, 2>>
    /\ ledger = {1}
    /\ 3 \in Versions(files)

C22_UpdateMissingIsNotFound ==
    /\ \A id \in ProjectIDs \ DOMAIN projects :
           /\ UpdateProjectError(projects, id, TRUE) = "project not found"
           /\ \A completed \in BOOLEAN, completedAt \in NullableDays, so \in UpdateSortOrders :
                  ProjectsAfterUpdate(projects, id, completed, completedAt, so) = projects
    /\ \A id \in TaskIDs \ DOMAIN tasks :
           UpdateTaskSelectError(tasks, id, TRUE) = "task not found"

Blank(str) == \A i \in DOMAIN str : str[i] \in Whitespace

\* C24: whenever Project.Validate has returned, it has returned an error if
\* and only if the name is empty or all white space, or the type is neither
\* "project" nor "category", or the type is "category" and a target date is
\* set; and the error is that of the first of these rules, in this order, that
\* the project breaks.
C24_ProjectValidate ==
    \A c \in Clients :
        calls[c].pc = "Project.Validate returned" =>
            LET p == calls[c].project
                err == calls[c].err
                noName == Blank(p.Name)
                badType == p.Type \notin {"project", "category"}
                dated == p.Type = "category" /\ p.TargetDate # NULL
            IN /\ err # "nil" <=> (noName \/ badType \/ dated)
               /\ noName => err = "name is required"
               /\ (~noName /\ badType) => err = "type must be 'project' or 'category'"
               /\ (~noName /\ ~badType /\ dated) => err = "category cannot have a target date"

\* C24's case: Validate has returned for a project that breaks the first two
\* rules, its name being white space and its type unknown.
C24_Witness ==
    \E c \in Clients :
        /\ calls[c].pc = "Project.Validate returned"
        /\ calls[c].project.Name = <<" ", "\t">>
        /\ calls[c].project.Type = "Project"
        /\ calls[c].err = "name is required"

\* C25: whenever Task.Validate has returned, it has returned an error if and
\* only if the description is empty or all white space, or project_id is 0, or
\* the priority is none of "high", "medium", "low", or the notes are longer
\* than 255; notes of 255 are accepted and notes of 256 rejected.
C25_TaskValidate ==
    \A c \in Clients :
        calls[c].pc = "Task.Validate returned" =>
            LET t == calls[c].task
                err == calls[c].err
                otherwiseValid ==
                    /\ ~Blank(t.Description)
                    /\ t.ProjectID # 0
                    /\ t.Priority \in {"high", "medium", "low"}
            IN /\ err # "nil" <=> (~otherwiseValid \/ Len(t.Notes) > 255)
               /\ (otherwiseValid /\ Len(t.Notes) = 255) => err = "nil"
               /\ (otherwiseValid /\ Len(t.Notes) = 256) => err # "nil"

\* C25's case: Validate has rejected a task for its notes of 256 alone.
C25_Witness ==
    \E c \in Clients :
        /\ calls[c].pc = "Task.Validate returned"
        /\ Len(calls[c].task.Notes) = 256
        /\ calls[c].task.Priority = "low"
        /\ calls[c].err = "notes must be 255 characters or fewer"

\* C26: through the handlers' create and update requests no stored project of
\* type "category" has a target date: a create request with type category and
\* a target date is answered 400 and stores nothing, and an update request that
\* makes a project a category is accepted and stores it without target date,
\* whatever date its form carries.
C26_CategoryHasNoTargetDate ==
    /\ \A p \in DOMAIN projects :
           projects[p].type = "category" => projects[p].target_date = NULL
    /\ \A form \in ProjectForms :
           (form.type = "category" /\ parseDate(form.target_date) # NULL)
               => CreateProjectRequest(form) = [status |-> 400, projects |-> projects]
    /\ \A c \in Clients : calls[c].pc = "Handlers.UpdateProject" =>
           \A form \in ProjectForms :
               (form.type = "category" /\ ~Blank(form.name)) =>
                   LET request == UpdateProjectRequest(c, form)
                   IN /\ request.status = 200
                      /\ calls[c].id \in DOMAIN projects =>
                             /\ request.projects[calls[c].id].type = "category"
                             /\ request.projects[calls[c].id].target_date = NULL

\* A category is stored next to a project with a target date that an update
\* request has read and is about to rewrite.
C26_Witness ==
    /\ \E p \in DOMAIN projects : projects[p].type = "category"
    /\ calls[Caller].pc = "Handlers.UpdateProject"
    /\ calls[Caller].id \in DOMAIN projects
    /\ projects[calls[Caller].id].type = "project"
    /\ projects[calls[Caller].id].target_date # NULL

\* C27: a create or update request for a project or a task whose struct fails
\* Validate is answered 400, and the step that answers 400 leaves both tables
\* as they were, rows and fields.
C27_InvalidIsAnswered400 ==
    /\ \A form \in ProjectForms :
           ProjectValidate(NewProject(form)) # "nil"
               => CreateProjectRequest(form) = [status |-> 400, projects |-> projects]
    /\ \A p \in URLProjectIDs, form \in TaskForms :
           \A listing \in Listings(p) :
               TaskValidate(NewTask(p, form)) # "nil"
                   => CreateTaskRequest(p, form, listing) = Responded(400)
    /\ \A c \in Clients :
           /\ calls[c].pc = "Handlers.UpdateProject" =>
                  \A form \in ProjectForms :
                      ProjectValidate(UpdatedProject(calls[c].id, calls[c].project, form)) # "nil"
                          => UpdateProjectRequest(c, form) = [status |-> 400, projects |-> projects]
           /\ calls[c].pc = "Handlers.UpdateTask" =>
                  \A form \in TaskForms :
                      TaskValidate(UpdatedTask(calls[c].id, calls[c].task, form)) # "nil"
                          => UpdateTaskRequest(c, form) = Responded(400)
C27_AnswerLeavesRows ==
    \A c \in Clients :
        (calls'[c] # calls[c] /\ calls'[c] = Responded(400))
            => (projects' = projects /\ tasks' = tasks)
C27_InvalidStoresNothing == [](C27_InvalidIsAnswered400) /\ [][C27_AnswerLeavesRows]_vars

\* A request has been answered 400 while rows of both tables are stored.
C27_Witness ==
    /\ calls[Caller] = Responded(400)
    /\ DOMAIN projects # {}
    /\ DOMAIN tasks # {}

\* C28: a create-task request whose listing of the project's tasks failed ends
\* with an error response and creates no row.
C28_FailedListingFailsRequest ==
    \A c \in Clients :
        (/\ calls[c].pc = "Handlers.CreateTask"
         /\ calls[c].listErr # "nil"
         /\ calls'[c] # calls[c])
            => /\ DOMAIN tasks' = DOMAIN tasks
               /\ "status" \in DOMAIN calls'[c]
C28_FailedListingCreatesNothing == [][C28_FailedListingFailsRequest]_vars

\* C29: the row that Handlers.CreateTask is about to insert, after a listing
\* that succeeded, has a sort_order greater than that of every task now in the
\* project.
C29_CreatedTaskIsLast ==
    \A c \in Clients :
        (/\ calls[c].pc = "Handlers.CreateTask"
         /\ calls[c].listErr = "nil"
         /\ ForeignKeyOK(calls[c].task.ProjectID))
            => \A t \in TasksOf(tasks, calls[c].task.ProjectID) :
                   CreateTaskRows(calls[c].task)[nextTaskID].sort_order > tasks[t].sort_order

\* C23: a step that changes a row of projects or tasks leaves it with
\* updated_at at the day of the step and with the created_at it had.
C23_ChangedRowIsStamped ==
    /\ \A id \in DOMAIN projects \cap DOMAIN projects' :
           projects'[id] # projects[id] =>
               /\ projects'[id].updated_at = today
               /\ projects'[id].created_at = projects[id].created_at
    /\ \A id \in DOMAIN tasks \cap DOMAIN tasks' :
           tasks'[id] # tasks[id] =>
               /\ tasks'[id].updated_at = today
               /\ tasks'[id].created_at = tasks[id].created_at
C23_MutationRefreshesUpdatedAt == [][C23_ChangedRowIsStamped]_vars

\* listed holds, of the rows matching, those that come first by sort_order,
\* in ascending sort_order: all of them when limit <= 0, else as many as limit
\* allows.
FirstBySortOrder(rows, listed, matching, limit) ==
    /\ Range(listed) \subseteq matching
    /\ NoDuplicates(listed)
    /\ Len(listed) = IF limit > 0 /\ limit < Cardinality(matching)
                     THEN limit ELSE Cardinality(matching)
    /\ \A i, j \in DOMAIN listed : i < j => rows[listed[i]].sort_order <= rows[listed[j]].sort_order
    /\ \A t \in matching \ Range(listed) :
           \A i \in DOMAIN listed : rows[listed[i]].sort_order <= rows[t].sort_order

\* C31: ListTasksByProject(p, limit) returns tasks of project p only, in
\* ascending sort_order, and ListTasksByProjectFiltered(p, c, limit) those of
\* them whose completed flag is c; a limit > 0 leaves the first min(limit, n)
\* of the n matching tasks by sort_order, a limit <= 0 all n.
C31_ListTasksFilteredAndLimited ==
    \A p \in URLProjectIDs, limit \in Limits :
        /\ \A listed \in ListTasksByProjectLimited(tasks, p, limit) :
               FirstBySortOrder(tasks, listed, TasksOf(tasks, p), limit)
        /\ \A c \in BOOLEAN :
               \A listed \in ListTasksByProjectFiltered(tasks, p, c, limit) :
                   FirstBySortOrder(tasks, listed,
                       {t \in TasksOf(tasks, p) : tasks[t].completed = c}, limit)

\* A project holds two tasks at the same sort_order, one completed and one
\* not, next to a task of another project: a limit of 1 cuts the listing
\* short and the filter leaves a task out.
C31_Witness ==
    \E p \in ProjectIDs :
        /\ Cardinality(TasksOf(tasks, p)) = MaxTasks - 1
        /\ \E t, u \in TasksOf(tasks, p) :
               /\ tasks[t].completed /\ ~tasks[u].completed
               /\ tasks[t].sort_order = tasks[u].sort_order
        /\ DOMAIN tasks # TasksOf(tasks, p)

\* The accepted encodings of the date of day d: the plain date, an RFC 3339
\* datetime, a space-separated datetime with or without fraction or offset.
Encodings(d) ==
    LET fractions == {<<>>} \cup {<<x>> : x \in Fractions}
        offsets == {<<o>> : o \in Offsets}
    IN {<<ToString(d)>>}
       \cup {<<ToString(d), "T", Clock>> \o f \o z : f \in fractions, z \in {<<"Z">>} \cup offsets}
       \cup {<<ToString(d), " ", Clock>> \o f \o z : f \in fractions, z \in {<<>>} \cup offsets}

C33_ServerErrorsAreGeneric ==
    \A c \in Clients :
        ("status" \in DOMAIN calls[c] /\ calls[c].status = 500)
            => calls[c] = respondServerError("nil")

C36_CompletedAtIffCompleted ==
    /\ \A p \in DOMAIN projects : projects[p].completed <=> projects[p].completed_at # NULL
    /\ \A t \in DOMAIN tasks : tasks[t].completed <=> tasks[t].completed_at # NULL

\* An UpdateTask that read a completed task is about to write while the task
\* has been reopened in between, beside a completed project and a task
\* completed on an earlier day.
C36_Witness ==
    /\ \E c \in Racers :
           /\ calls[c].pc = "UpdateTask_update"
           /\ calls[c].wasCompleted
           /\ calls[c].id \in DOMAIN tasks
           /\ ~tasks[calls[c].id].completed
    /\ \E p \in DOMAIN projects : projects[p].completed
    /\ \E t \in DOMAIN tasks : tasks[t].completed /\ tasks[t].completed_at # {today}


\* C37: for a database without ledger that has any of the tables projects
\* and tasks and any of the columns tasks.completed_at, projects.completed
\* and projects.completed_at, once NewSQLiteStore has returned the store
\* every table and column of every migration in the ledger is in the schema.
C37_RecordedMigrationsExist ==
    boot.pc = "done" => \A v \in ledger : Changes(v) \subseteq schema


\* C38: the write of an UpdateProject / UpdateTask request leaves the row's
\* sort_order and, for a project, its completed and completed_at as they
\* are stored when the write arrives, also when a reorder or a
\* MarkProjectComplete has committed since the request read the row.
C38_EditKeepsOrderAndCompletion ==
    [][\A c \in Clients :
          /\ (/\ calls[c].pc = "Handlers.UpdateProject"
              /\ calls'[c].pc # "Handlers.UpdateProject"
              /\ calls[c].id \in DOMAIN projects) =>
                 LET id == calls[c].id
                 IN /\ projects'[id].sort_order = projects[id].sort_order
                    /\ projects'[id].completed = projects[id].completed
                    /\ projects'[id].completed_at = projects[id].completed_at
          /\ (/\ calls[c].pc = "Handlers.UpdateTask_update"
              /\ calls'[c].pc # "Handlers.UpdateTask_update"
              /\ calls[c].id \in DOMAIN tasks) =>
                 tasks'[calls[c].id].sort_order = tasks[calls[c].id].sort_order]_vars


\* C39: once the INSERT of CreateProject / CreateTask has taken effect, the
\* call returns success with the new id and the sort_order the INSERT
\* assigned: its follow-up SELECT finds the row, and what it scans is not
\* changed by a reorder or a delete running between the two statements.
C39_CreateReportsItsInsert ==
    /\ [](\A c \in Clients :
             /\ calls[c].pc = "CreateProject_select" =>
                    CreateProjectReturn(projects, calls[c].id, TRUE).err = "nil"
             /\ calls[c].pc = "CreateTask_select" =>
                    CreateTaskReturn(tasks, calls[c].id, TRUE).err = "nil")
    /\ [][\A c \in Clients :
             /\ (calls[c].pc = "CreateProject_select" /\ calls'[c] = calls[c]) =>
                    CreateProjectReturn(projects', calls[c].id, TRUE) =
                        CreateProjectReturn(projects, calls[c].id, TRUE)
             /\ (calls[c].pc = "CreateTask_select" /\ calls'[c] = calls[c]) =>
                    CreateTaskReturn(tasks', calls[c].id, TRUE) =
                        CreateTaskReturn(tasks, calls[c].id, TRUE)]_vars


\* The hosts of the Origin and Referer values that were sent, an unparsable
\* value counting as a host of its own.
SentHosts(r) ==
    {IF urlParse(h).err = "nil" THEN ToLower(urlParse(h).Host) ELSE "unparsable" :
        h \in {r.Origin, r.Referer} \ {<<>>}}

\* C40: csrfOriginCheck passes a request whose method is not GET, HEAD or
\* OPTIONS on only if Origin or Referer was sent and every one of the two
\* that was sent parses to the request's Host, letter case ignored; any
\* other such request is answered 403 and no table changes but in a handler
\* that was passed a request; GET, HEAD and OPTIONS are always passed on.
C40_OnlySameHostWrites ==
    /\ [](\A c \in Clients :
             calls[c].pc = "next.ServeHTTP" =>
                 \/ calls[c].Method \in {"GET", "HEAD", "OPTIONS"}
                 \/ SentHosts(calls[c]) = {ToLower(calls[c].Host)})
    /\ [][\A c \in Clients :
             (calls[c].pc = "csrfOriginCheck" /\ calls'[c] # calls[c]) =>
                 \/ calls'[c].pc = "next.ServeHTTP"
                 \/ /\ calls[c].Method \notin {"GET", "HEAD", "OPTIONS"}
                    /\ calls'[c].pc = "idle" /\ calls'[c].status = 403
                    /\ projects' = projects /\ tasks' = tasks]_vars
    /\ [][(projects' # projects \/ tasks' # tasks) =>
             \E c \in Clients : calls[c].pc \in {"next.ServeHTTP", "Handlers.UpdateProject"}]_vars

\* A DELETE of a stored project, sent without Origin and with a Referer
\* whose host is the request's Host in other letter case, has been passed on
\* to its handler.
C40_Witness ==
    /\ calls[Caller].pc = "next.ServeHTTP"
    /\ calls[Caller].Method = "DELETE"
    /\ calls[Caller].Origin = <<>>
    /\ calls[Caller].Referer = <<"http://", "TASKS.TEST", "/projects/1">>
    /\ calls[Caller].Host = "Tasks.Test"
    /\ calls[Caller].id \in DOMAIN projects

====
